---------------------------- MODULE Spec2Model ----------------------------
(***************************************************************************)
(* The web event-loop runner of winit (winit-web/src/event_loop/runner.rs) *)
(* as a state machine.                                                     *)
(*                                                                         *)
(* The runner is single threaded.  Code of the runner executes either at   *)
(* top level (a browser task: a DOM listener, a scheduled poll or timer, a *)
(* microtask) or re-entrantly, from inside an application callback.  While *)
(* a callback executes, Execution.runner is mutably borrowed (the          *)
(* borrow_mut() of handle_event lives for the whole match), which is what  *)
(* try_borrow() in send_events and is_closed observes.                     *)
(*                                                                         *)
(* One run_until_cleared invocation is split at the application callbacks: *)
(* pc = "handle"   handle_event(nxt) is about to execute                   *)
(* pc = "callback" the application callback of the last log entry executes *)
(* pc = "stage"    control is back in run_until_cleared, at `stage`        *)
(* pc = "idle"     no runner code is on the stack                          *)
(* Operations of the environment are enabled only at "idle" (top level)    *)
(* and at "callback" (re-entrant), never in between.                       *)
(***************************************************************************)
EXTENDS Integers, Sequences, FiniteSets, TLC

\* Bounds of the model.
MaxOps     == 3   \* calls the application and the browser make in one run
MaxWindows == 2   \* windows the application creates in one run
MaxBatch   == 2   \* events handed to one send_events call
MaxTime    == 2   \* the clock runs from 0 to MaxTime

VARIABLES
    \* Execution (runner.rs 42-72)
    runner,           \* RunnerEnum: "Pending" | "Initializing" | "Running" | "Destroyed"
    state,            \* Runner.state (LoopState), meaningful while a Runner exists
    control_flow,     \* Execution.control_flow
    exit,             \* Execution.exit
    events,           \* Execution.events: VecDeque<Event>
    id,               \* Execution.id: next WindowId
    all_canvases,     \* Execution.all_canvases (the ids)
    redraw_pending,   \* Execution.redraw_pending: HashSet<WindowId>
    destroy_pending,  \* Execution.destroy_pending: VecDeque<WindowId>
    listeners,        \* page_transition_event_handle, on_mouse_move, ... are Some
    proxy_woken,      \* what event_loop_proxy.take() would return
    \* the runner code on the stack
    pc,               \* see above
    stage,            \* position in run_until_cleared: "batch" | "destroy" | "redraw" | "atw" | "apply"
    nxt,              \* the argument of the handle_event call about to execute
    batch,            \* rest of the `events` iterator of run_until_cleared
    redraw_events,    \* rest of the Vec collected at line 623
    destroying,       \* the id whose Destroyed is being handled (602-608), or NoWindow
    in_start,         \* start / start_delayed is on the stack below init()
    panicked,         \* an assert!/unreachable!/expect failed
    \* the environment
    monitor_initializing, \* monitor.is_initializing()
    microtask,        \* a queue_microtask closure of send_proxy_wake_up is pending
    dropped,          \* windows whose handle was dropped (notify_destroy_window called)
    nextSeq,          \* submission number of the next submitted event
    ops,              \* calls made so far by the application and the browser
    \* time and the scheduled wakes
    now,              \* what Instant::now() returns
    deadline,         \* the Instant of ControlFlow::WaitUntil, or NoInstant
    state_start,      \* `start` of State::Wait / State::WaitUntil, or NoInstant
    state_end,        \* `end` of State::WaitUntil, or NoInstant
    scheduled,        \* the backend::Schedule objects alive (their wake can fire)
    start_cause,      \* the fields of the StartCause the invocation began with
    \* history
    log,              \* callbacks delivered by the current run_until_cleared invocation
    hist,             \* counters and marks over the run, see HistInit
    \* the device event filter of the web runner (runner.rs 64, 795-813)
    device_events,    \* Execution.device_events: "Always" | "WhenFocused" | "Never"
    has_focus,        \* the window whose canvas has has_focus set, or NoWindow
    \* the X11 input method (winit-x11 ime/callbacks.rs)
    inner,            \* ImeInner: im, contexts, is_destroyed, is_fallback
    xim,              \* Xlib: the input methods open, the next handle, the
                      \* instantiate callback, the callbacks made so far
    ime_last,         \* what the last callback did, see NoCallback
    \* the X11 monitor list (winit-x11 monitor.rs)
    monitor_handles,  \* XConnection.monitor_handles: None or the cached list
    xserver,          \* the monitor list the X server reports when queried
    mon_last,         \* what the last call did, see NoCall
    query,            \* the last query_monitor_list: what the X server held and what came back
    \* the IME session of a window (winit-core window.rs)
    ime_session,      \* "Disabled" or the capabilities and data of the enabled session
    enable_request,   \* the last ImeEnableRequest::new call: its arguments and result
    ime_req,          \* the last request_ime_update call: request, session before, result
    \* the last call of a constructor or conversion of winit-core
    surrounding,      \* ImeSurroundingText::new: its arguments and result
    button,           \* ButtonSource::mouse_button: its receiver and result
    force,            \* Force::normalized: its receiver and result
    \* the window id counter of the web runner at its full width (runner.rs 53)
    gen               \* Execution.id and the generate_id calls observed, see Fresh

progVars == <<runner, state, control_flow, exit, events, id, all_canvases,
              redraw_pending, destroy_pending, listeners, proxy_woken>>
stackVars == <<pc, stage, nxt, batch, redraw_events, destroying, in_start, panicked>>
envVars == <<monitor_initializing, microtask, dropped, nextSeq, ops>>
schedVars == <<now, deadline, state_start, state_end, scheduled>>
timeVars == <<now, deadline, state_start, state_end, scheduled, start_cause>>
deviceVars == <<device_events, has_focus>>
ximVars == <<inner, xim, ime_last>>
monitorVars == <<monitor_handles, xserver, mon_last, query>>
imeVars == <<ime_session, enable_request, ime_req>>
\* everything but the web runner proper
coreVars == <<surrounding, button, force>>
idVars == <<gen>>
otherVars == <<deviceVars, ximVars, monitorVars, imeVars, coreVars, idVars>>
\* the web runner
webVars == <<progVars, stackVars, envVars, timeVars, log, hist, deviceVars>>
vars == <<progVars, stackVars, envVars, timeVars, log, hist, otherVars>>

NoWindow == -1

\* Option::None of an Instant, and the place of a field a variant has not.
NoInstant == -1

Instants == 0 .. MaxTime

WindowIds == 0 .. (MaxWindows - 1)

\* Event (runner.rs 878-888).  WindowEvent::Destroyed and
\* WindowEvent::RedrawRequested are kept apart from the other window events;
\* seq is the submission number of an event that came through send_events
\* (0 for the events the runner makes itself).
Ev(t, c, w, s) == [type |-> t, cause |-> c, window_id |-> w, seq |-> s]
NoEvent == Ev("None", "-", NoWindow, 0)
NewEvents(cause) == Ev("NewEvents", cause, NoWindow, 0)
CreateSurfaces == Ev("CreateSurfaces", "-", NoWindow, 0)
AboutToWait == Ev("AboutToWait", "-", NoWindow, 0)
UserWakeUp == Ev("UserWakeUp", "-", NoWindow, 0)
Destroyed(w) == Ev("Destroyed", "-", w, 0)
RedrawRequested(w) == Ev("RedrawRequested", "-", w, 0)

Range(s) == {s[i] : i \in 1 .. Len(s)}
Last(s) == s[Len(s)]
Min(a, b) == IF a < b THEN a ELSE b

\* All orders in which a HashSet can hand out its elements.
Orders(S) == {s \in [1 .. Cardinality(S) -> S] : \A i, j \in 1 .. Cardinality(S) : s[i] = s[j] => i = j}


(***************************************************************************)
(* History.  These fields only record what happened; no operation of the   *)
(* runner reads them.                                                      *)
(***************************************************************************)
HistInit ==
    [ initCount     |-> 0,       \* new_events(StartCause::Init) callbacks, counted up to 2
      surfCount     |-> 0,       \* can_create_surfaces callbacks, counted up to 2
      firstCb       |-> NoEvent, \* the first callback of the run
      cycleDone     |-> FALSE,   \* a run_until_cleared invocation has returned
      teardowns     |-> 0,       \* handle_loop_destroyed executions, counted up to 2
      unloaded      |-> FALSE,   \* handle_unload has run
      closedSend    |-> FALSE,   \* an event was submitted to a closed runner
      reqInCycle    |-> {},      \* request_redraw(id) was called in the current cycle
      reqPreDrain   |-> {},      \* ... before redraw_pending was drained (line 623)
      reqPostDrain  |-> {},      \* ... after it was drained
      reqTwice      |-> {},      \* ... before it was drained, more than once
      notified      |-> {},      \* notify_destroy_window(id) was called in the current
                                 \* cycle while id had a redraw pending
      notifiedPre   |-> {},      \* ... or before it, and before the destroy phase ended
      dropOrder     |-> <<>>,    \* the windows in the order of their notify_destroy_window
      destroyedSeq  |-> <<>>,    \* the windows in the order of their Destroyed callbacks
      destroyed     |-> {},      \* the windows whose Destroyed callback was delivered
      exitCalled    |-> FALSE,   \* the application has called exit()
      exitInCycle   |-> FALSE,   \* ... from a callback
      exitSeq       |-> 0,       \* ... when nextSeq was this
      exitQueue     |-> {},      \* ... when these submissions were in the pending queue
      exitAt        |-> [stage |-> "none", log |-> 0, batch |-> <<>>, destroy |-> {},
                          redraw |-> {}],
                                 \* ... at this stage of run_until_cleared, after this
                                 \* many callbacks, with this rest of the batch, these
                                 \* windows in destroy_pending and these redraws pending
      origin        |-> "none",  \* what began the current invocation: "init", "poll",
                                 \* "timer" or "send"
      enteredAt     |-> NoInstant, \* when apply_control_flow last installed a state
      enteredCf     |-> "none",  \* the ControlFlow it read
      enteredEnd    |-> NoInstant, \* the deadline it read
      firedAt       |-> NoInstant, \* when the timer wake of the current invocation fired
      queued        |-> <<>>,    \* the pending queue when start_delayed started the runner
      setInAtw      |-> FALSE,   \* set_control_flow was called from about_to_wait in
                                 \* the current invocation
      enteredInAtw  |-> FALSE,   \* ... in the invocation that installed the state
      cancelled     |-> FALSE,   \* a Schedule has been dropped before its wake fired
      polls         |-> 0,       \* poll() invocations, counted up to 2
      starts        |-> 0,       \* start() calls
      raw           |-> 0,       \* raw device inputs that reached a listener
      reentrant     |-> <<>>     \* the events queued in the current invocation while
                                 \* a callback was executing
    ]

\* What a history becomes when a run_until_cleared invocation begins (and
\* the marks of the cycle when one has ended).
CycleStart(h) ==
    [h EXCEPT !.reqInCycle = {}, !.reqPreDrain = {}, !.reqPostDrain = {},
              !.reqTwice = {},
              !.notified = {},
              !.origin = "none",
              !.reentrant = <<>>,
              !.setInAtw = FALSE,
              !.firedAt = NoInstant,
              !.notifiedPre = Range(destroy_pending) \cap redraw_pending]

\* What a history becomes when callback e is delivered.
Delivered(h, e) ==
    [h EXCEPT !.initCount = IF e = NewEvents("Init") THEN Min(@ + 1, 2) ELSE @,
              !.surfCount = IF e = CreateSurfaces THEN Min(@ + 1, 2) ELSE @,
              !.firstCb = IF @ = NoEvent THEN e ELSE @,
              !.destroyed = IF e.type = "Destroyed" THEN @ \cup {e.window_id} ELSE @,
              !.destroyedSeq = IF e.type = "Destroyed" THEN Append(@, e.window_id) ELSE @]

(***************************************************************************)
(* Helpers of the runner.                                                  *)
(***************************************************************************)

\* self.0.runner.try_borrow() fails: handle_event holds the borrow_mut() of
\* line 658 while handle_single_event runs the callback.
Borrowed == pc = "callback"

\* An is_closed that takes a destroyed runner for one that is not closed.
IsClosed_destroyed_open(r, s, borrowed) ==
    IF borrowed THEN FALSE ELSE r = "Running" /\ s = "Exit"

\* An is_closed that overlooks the Exit state of a running runner.
IsClosed_exit_open(r, s, borrowed) ==
    IF borrowed THEN FALSE ELSE r = "Destroyed"

\* Shared::is_closed (780-793) for RunnerEnum r holding LoopState s, the
\* RefCell being mutably borrowed or not; State::exiting() is s = Exit.
IsClosed(r, s, borrowed) ==
    IF borrowed THEN FALSE
    ELSE CASE r = "Running" -> s = "Exit"
           [] r = "Pending" -> FALSE
           [] r = "Destroyed" -> TRUE
           [] r = "Initializing" -> FALSE

is_closed == IsClosed(runner, state, Borrowed)

\* Runner::maybe_start_cause (125-135); "None" is Option::None.
maybe_start_cause(s) ==
    CASE s = "Init" -> "Init"
      [] s = "Poll" -> "Poll"
      [] s \in {"Wait", "WaitUntil"} -> "WaitCancelled"
      [] s = "Exit" -> "None"

\* A cause that forgets the requested resume time.
StartCauseFields_none(s, start, end) ==
    IF s \in {"Wait", "WaitUntil"}
    THEN [start |-> start, requested_resume |-> NoInstant]
    ELSE [start |-> NoInstant, requested_resume |-> NoInstant]

\* The StartCause fields of Runner::maybe_start_cause (125-135).
StartCauseFields(s, start, end) ==
    CASE s = "Wait" -> [start |-> start, requested_resume |-> NoInstant]
      [] s = "WaitUntil" -> [start |-> start, requested_resume |-> end]
      [] OTHER -> [start |-> NoInstant, requested_resume |-> NoInstant]

NoFields == [start |-> NoInstant, requested_resume |-> NoInstant]

\* A runner that overlooks the exit flag when a cycle ends.
new_state_no_exit == control_flow

\* A runner that keeps its LoopState when a cycle ends.
new_state_kept == IF exit THEN "Exit" ELSE state

\* The new_state of Shared::apply_control_flow (704-738).
new_state == IF exit THEN "Exit" ELSE control_flow

\* A delay that is always zero.
delay_zero(start, end) == 0

\* A delay that is the distance of the two instants.
delay_abs(start, end) == IF end <= start THEN start - end ELSE end - start

\* The `delay` of apply_control_flow (722).
delay(start, end) == IF end <= start THEN 0 ELSE end - start

\* A Schedule (backend::Schedule, held by State::Poll and State::WaitUntil):
\* the wake fires no earlier than `due` and runs poll() or
\* resume_time_reached(start, end); holder is "new_state" while the local of
\* apply_control_flow holds it and "state" once Runner.state does.
Schedule(kind, start, end, due) ==
    [kind |-> kind, start |-> start, end |-> end, due |-> due, holder |-> "new_state"]

\* A runner that schedules no wake for Poll.
new_schedules_no_poll ==
    IF exit \/ control_flow # "WaitUntil" THEN <<>>
    ELSE <<Schedule("Timeout", now, deadline, now + delay(now, deadline))>>

\* The Schedule objects that the construction of new_state makes (708-735).
new_schedules ==
    IF exit THEN <<>>
    ELSE CASE control_flow = "Poll" -> <<Schedule("Poll", NoInstant, NoInstant, now)>>
           [] control_flow = "Wait" -> <<>>
           [] control_flow = "WaitUntil" ->
                <<Schedule("Timeout", now, deadline, now + delay(now, deadline))>>

\* An assignment that leaves the Schedule of the previous State alive.
Assigned_leak(sched) == [i \in 1 .. Len(sched) |-> [sched[i] EXCEPT !.holder = "state"]]

\* Dropping the State that Runner.state held drops its Schedule, which
\* cancels the wake; the new State moves in.
Assigned(sched) ==
    LET kept == SelectSeq(sched, LAMBDA w : w.holder = "new_state")
    IN  [i \in 1 .. Len(kept) |-> [kept[i] EXCEPT !.holder = "state"]]

\* The new State is dropped without being assigned (740 does not match).
NotAssigned(sched) == SelectSeq(sched, LAMBDA w : w.holder = "state")

\* A closure that reads the clock when the wake fires.
timer_cause_now(w) == [start |-> now, requested_resume |-> w.end]

\* The arguments of resume_time_reached(start, end) in the closure of line
\* 732, which become the fields of StartCause::ResumeTimeReached (503-504).
timer_cause(w) == [start |-> w.start, requested_resume |-> w.end]

\* A drain that hands out every pending id twice.
DrainRedrawPending_twice(pending) == {s \o s : s \in Orders(pending)}

\* A run_until_cleared that skips the redraws once exit() was requested.
DrainRedrawPending_exiting(pending) == IF exit THEN {<<>>} ELSE Orders(pending)

\* The Vec collected from redraw_pending.drain() (623), in any iteration order.
DrainRedrawPending(pending) == Orders(pending)

\* A destroy phase that leaves the canvas of the destroyed window in the
\* table.
retain_all(canvases, w) == canvases

\* all_canvases.retain(|&(item_id, ..)| item_id != id) (603).
retain(canvases, w) == canvases \ {w}

\* A destroy phase that leaves the redraw request of the destroyed window.
remove_redraw_kept(pending, w) == pending

\* redraw_pending.remove(&id) after Destroyed(id) was handled (608); w is
\* NoWindow when no Destroyed has been handled yet.
remove_redraw(pending, w) == pending \ {w}

\* Shared::run_until_cleared (616-619) up to its first handle_event call.
run_until_cleared(evs) ==
    /\ nxt' = Head(evs)
    /\ batch' = Tail(evs)
    /\ stage' = "batch"
    /\ pc' = "handle"
    /\ redraw_events' = <<>>
    /\ destroying' = NoWindow
    /\ log' = <<>>

\* A send_events that runs an invocation although the runner is borrowed
\* by an executing callback.
process_immediately_reentrant(r, borrowed) == r = "Running"

\* A send_events that wakes a runner that has not been attached.
process_immediately_pending(r, borrowed) == ~borrowed /\ r \in {"Running", "Pending"}

\* A send_events that wakes a runner that is still initializing.
process_immediately_initializing(r, borrowed) ==
    ~borrowed /\ r \in {"Running", "Initializing"}

\* `process_immediately` of send_events (558-572) for a runner that is not
\* Destroyed.
process_immediately(r, borrowed) == ~borrowed /\ r = "Running"

stackIdle == UNCHANGED <<pc, stage, nxt, batch, redraw_events, destroying, log, start_cause>>

\* Shared::send_events (552-597).  h: the history when no cycle starts,
\* hc: the history when one starts.
send_events(evs, h, hc) ==
    IF is_closed
    THEN /\ hist' = h
         /\ stackIdle
         /\ UNCHANGED <<events, panicked>>
    ELSE IF runner = "Destroyed"                       \* 573: unreachable!()
    THEN /\ panicked' = TRUE
         /\ hist' = h
         /\ stackIdle
         /\ UNCHANGED events
    ELSE IF ~process_immediately(runner, Borrowed)
    THEN /\ events' = events \o evs                    \* 575-579
         /\ hist' = [h EXCEPT !.reentrant = IF Borrowed THEN @ \o evs ELSE @]
         /\ stackIdle
         /\ UNCHANGED panicked
    ELSE IF maybe_start_cause(state) = "None"          \* 588-591
    THEN /\ hist' = h
         /\ stackIdle
         /\ UNCHANGED <<events, panicked>>
    ELSE /\ run_until_cleared(<<NewEvents(maybe_start_cause(state))>> \o evs)
         /\ start_cause' = StartCauseFields(state, state_start, state_end)
         /\ hist' = [hc EXCEPT !.origin = "send"]
         /\ UNCHANGED <<events, panicked>>

TopLevel == pc = "idle" /\ ~panicked /\ ~microtask
InCallback == pc = "callback" /\ ~panicked
Callable == TopLevel \/ InCallback

\* One more call of the application or the browser.
Call == ops < MaxOps /\ ops' = ops + 1

Live == {w \in WindowIds : w < id /\ w \notin dropped}

InitWeb ==
    /\ runner = "Pending"
    /\ state = "Init"
    /\ control_flow = "Wait"
    /\ exit = FALSE
    /\ events = <<>>
    /\ id = 0
    /\ all_canvases = {}
    /\ redraw_pending = {}
    /\ destroy_pending = <<>>
    /\ listeners = FALSE
    /\ proxy_woken = FALSE
    /\ pc = "idle"
    /\ stage = "batch"
    /\ nxt = NoEvent
    /\ batch = <<>>
    /\ redraw_events = <<>>
    /\ destroying = NoWindow
    /\ in_start = FALSE
    /\ panicked = FALSE
    /\ monitor_initializing \in BOOLEAN
    /\ microtask = FALSE
    /\ dropped = {}
    /\ nextSeq = 1
    /\ ops = 0
    /\ now = 0
    /\ deadline = NoInstant
    /\ state_start = NoInstant
    /\ state_end = NoInstant
    /\ scheduled = <<>>
    /\ start_cause = NoFields
    /\ log = <<>>
    /\ hist = HistInit
    /\ device_events = "WhenFocused"                   \* 210: DeviceEvents::default()
    /\ has_focus = NoWindow


(***************************************************************************)
(* The X11 input method: winit-x11/src/ime/callbacks.rs.  Xlib calls       *)
(* xim_instantiate_callback when an input method server becomes available  *)
(* and xim_destroy_callback when the server closes the input method in     *)
(* use.  A panic in either aborts the process.                             *)
(***************************************************************************)

MaxImeWindows == 2   \* windows with an entry in ImeInner.contexts
MaxImeCalls   == 3   \* callbacks Xlib makes in one run

ImeWindows == 1 .. MaxImeWindows

\* No XIM handle.
NoIm == 0

\* The ic_area values; DefaultArea is what a context created with no area has.
DefaultArea == 0
IcAreas == {0, 1}

\* Option<ImeContext>: None, and Some(context).  `im` is the input method
\* the context was created under; given/area/is_allowed are the arguments
\* ImeContext::new was called with.
NoContext ==
    [some |-> FALSE, im |-> NoIm, given |-> FALSE, ic_area |-> DefaultArea,
     is_allowed |-> FALSE]

SomeContext(im, given, area, allowed) ==
    [some |-> TRUE, im |-> im, given |-> given, ic_area |-> area, is_allowed |-> allowed]

\* The arguments replace_im hands to ImeContext::new (119-123), as a
\* replacement that forgets whether the IME was allowed.
new_context_args_reset(old) ==
    [given |-> old.some, area |-> old.ic_area, is_allowed |-> FALSE]

\* The arguments replace_im hands to ImeContext::new (119-123): the area
\* and the is_allowed flag of the old context, None and false when the
\* entry holds no context.
new_context_args(old) ==
    [given |-> old.some,
     area |-> IF old.some THEN old.ic_area ELSE DefaultArea,
     is_allowed |-> IF old.some THEN old.is_allowed ELSE FALSE]

\* The error paths of replace_im (111-114, 137-140), as a replacement that
\* leaves the new input method open.
close_new_im_leak(x, new_im) == x

\* The error paths of replace_im (111-114, 137-140): close_im(new_im).
close_new_im(x, new_im) == [x EXCEPT !.open = @ \ {new_im}]

\* replace_im (88-155).  o says what the X calls of this attempt return:
\* o.open is what open_im finds ("primary", "fallback" or "fail"),
\* o.destroy_callback whether set_destroy_callback succeeds, o.context_fails
\* the window whose ImeContext::new fails (0: none).
replace_im(inn, x, o) ==
    IF o.open = "fail"                                 \* 91-103
    THEN [result |-> "MethodOpenFailed", inner |-> inn, xim |-> x]
    ELSE LET new_im == x.next
             opened == [x EXCEPT !.open = @ \cup {new_im}, !.next = @ + 1]
         IN  IF ~o.destroy_callback                    \* 107-116
             THEN [result |-> "SetDestroyCallbackFailed", inner |-> inn,
                   xim |-> close_new_im(opened, new_im)]
             ELSE IF o.context_fails \in DOMAIN inn.contexts   \* 118-143
             THEN [result |-> "ContextCreationFailed", inner |-> inn,
                   xim |-> close_new_im(opened, new_im)]
             ELSE [result |-> "Ok",                    \* 146-154
                   inner |-> [im |-> new_im,
                              contexts |->
                                  [w \in DOMAIN inn.contexts |->
                                      LET a == new_context_args(inn.contexts[w])
                                      IN  SomeContext(new_im, a.given, a.area, a.is_allowed)],
                              is_destroyed |-> FALSE,
                              is_fallback |-> (o.open = "fallback")],
                   xim |-> [opened EXCEPT !.open = @ \ {inn.im}]]

\* What the X calls of one replace_im attempt can return.
Outcomes ==
    [open : {"primary", "fallback", "fail"}, destroy_callback : BOOLEAN,
     context_fails : {0} \cup ImeWindows]

\* The record of the last callback: which one, what replace_im was given
\* and what it returned (ran: it was called), and whether the callback
\* panicked.
NoCallback ==
    [op |-> "none", ran |-> FALSE, result |-> "none", aborted |-> FALSE,
     before |-> [im |-> NoIm, contexts |-> <<>>, is_destroyed |-> FALSE,
                 is_fallback |-> FALSE],
     after |-> [im |-> NoIm, contexts |-> <<>>, is_destroyed |-> FALSE,
                is_fallback |-> FALSE],
     open_before |-> {}, open_after |-> {}]

\* Ime after construction: the input method opened first, no window.
InitXim ==
    /\ inner = [im |-> 1, contexts |-> <<>>, is_destroyed |-> FALSE, is_fallback |-> FALSE]
    /\ xim = [open |-> {1}, next |-> 2, instantiate_callback |-> FALSE, calls |-> 0]
    /\ ime_last = NoCallback

\* The context tables over the windows: every entry Some(context created
\* under input method 1), or (any) every entry None or Some.
Tables(any) ==
    UNION {[S -> {SomeContext(1, g, IF g THEN a ELSE DefaultArea, al) :
                     g \in BOOLEAN, a \in IcAreas, al \in BOOLEAN}
                 \cup {c \in {NoContext} : any}] : S \in SUBSET ImeWindows}

\* Ime when the first callback arrives: the first input method is open
\* (primary or fallback; the instantiate callback is registered while the
\* fallback is in use) and every window has a context, or the fallback was
\* destroyed by its server and windows registered since have none.
InitXimCallbacks ==
    /\ \E t \in Tables(TRUE), f \in BOOLEAN, d \in BOOLEAN :
          /\ d => f
          /\ ~d => t \in Tables(FALSE)
          /\ inner = [im |-> 1, contexts |-> t, is_destroyed |-> d, is_fallback |-> f]
          /\ xim = [open |-> IF d THEN {} ELSE {1}, next |-> 2,
                    instantiate_callback |-> f, calls |-> 0]
    /\ ime_last = NoCallback

\* xim_instantiate_callback (157-179).
XimInstantiateCallback(o) ==
    /\ ~ime_last.aborted
    /\ xim.instantiate_callback
    /\ xim.calls < MaxImeCalls
    /\ LET r == replace_im(inner, xim, o)
       IN  /\ inner' = IF r.result = "Ok"
                       THEN [r.inner EXCEPT !.is_fallback = FALSE]       \* 169
                       ELSE r.inner
           /\ xim' = [r.xim EXCEPT !.calls = @ + 1,
                                   !.instantiate_callback =
                                       IF r.result = "Ok" THEN FALSE ELSE @]   \* 168
           /\ ime_last' = [op |-> "instantiate", ran |-> TRUE, result |-> r.result,
                           aborted |-> (r.result # "Ok" /\ r.inner.is_destroyed),  \* 172-175
                           before |-> inner, after |-> r.inner,
                           open_before |-> xim.open, open_after |-> r.xim.open]
    /\ UNCHANGED <<webVars, idVars, coreVars, monitorVars, imeVars>>

\* xim_destroy_callback (181-206).  The server has freed the input method
\* and its contexts (181-183).
XimDestroyCallback(o) ==
    /\ ~ime_last.aborted
    /\ ~inner.is_destroyed
    /\ xim.calls < MaxImeCalls
    /\ LET destroyed == [inner EXCEPT !.is_destroyed = TRUE]             \* 191
           freed == [xim EXCEPT !.open = @ \ {inner.im}, !.calls = @ + 1]
       IN  IF ~inner.is_fallback                                         \* 193
           THEN LET registered == [freed EXCEPT !.instantiate_callback = TRUE]  \* 194
                    r == replace_im(destroyed, registered, o)
                IN  /\ inner' = IF r.result = "Ok"
                                THEN [r.inner EXCEPT !.is_fallback = TRUE]   \* 197
                                ELSE r.inner
                    /\ xim' = r.xim
                    /\ ime_last' = [op |-> "destroy", ran |-> TRUE, result |-> r.result,
                                    aborted |-> (r.result # "Ok"),       \* 198-201
                                    before |-> destroyed, after |-> r.inner,
                                    open_before |-> registered.open,
                                    open_after |-> r.xim.open]
           ELSE /\ inner' = destroyed
                /\ xim' = freed
                /\ ime_last' = [op |-> "destroy", ran |-> FALSE, result |-> "none",
                                aborted |-> FALSE,
                                before |-> destroyed, after |-> destroyed,
                                open_before |-> freed.open, open_after |-> freed.open]
    /\ UNCHANGED <<webVars, idVars, coreVars, monitorVars, imeVars>>

NextXim ==
    \/ \E o \in Outcomes : XimInstantiateCallback(o)
    \/ \E o \in Outcomes : XimDestroyCallback(o)

(***************************************************************************)
(* The X11 monitor list: winit-x11/src/monitor.rs.                         *)
(***************************************************************************)

MaxMonitors == 2   \* monitors the X server knows

\* The lists the X server can report: the monitors attached, in some order.
MonitorLists ==
    {l \in UNION {[1 .. n -> 1 .. MaxMonitors] : n \in 0 .. MaxMonitors} :
        \A i, j \in 1 .. Len(l) : i # j => l[i] # l[j]}

\* Option<Vec<MonitorHandle>>.
NoList == [some |-> FALSE, list |-> <<>>]
SomeList(l) == [some |-> TRUE, list |-> l]

\* The constant of monitor.rs 14, as a build with caching disabled.
DISABLE_MONITOR_LIST_CACHING_testing == TRUE

\* monitor.rs 14.
DISABLE_MONITOR_LIST_CACHING == FALSE

\* The record of the last call: op is "available" or "invalidate"; queried:
\* query_monitor_list ran; ok: the call returned Ok; ret: the list returned
\* (the Option returned, for invalidate); before, after: the cache; server:
\* what the X server would report; served: the list the last successful
\* available_monitors returned since the cache was last invalidated, before
\* the call.
NoCall ==
    [op |-> "none", queried |-> FALSE, ok |-> TRUE, ret |-> NoList,
     before |-> NoList, after |-> NoList, server |-> <<>>, served |-> NoList]

MaxCrtcs == 2   \* CRTCs of the screen

\* The CRTCs of the screen resources, beside their position in
\* resources.crtcs(), which stands for the XID. usable: width and height are
\* not 0 and outputs is not empty (212); output: outputs[0]; info:
\* get_output_info finds the output's name, scale factor and modes (129).
Crtcs == [usable : BOOLEAN, output : 1 .. MaxCrtcs, info : BOOLEAN]

\* The CRTC lists of a screen: an output is driven by one CRTC.
CrtcLists ==
    {l \in UNION {[1 .. n -> Crtcs] : n \in 0 .. MaxCrtcs} :
        \A i, j \in 1 .. Len(l) : i # j => l[i].output # l[j].output}

\* What randr_get_output_primary replies: an output, or 0 (x11rb::NONE).
PrimaryOutputs == 0 .. MaxCrtcs

\* MonitorHandle, as its id and its primary flag.
MonitorHandle(i, primary) == [id |-> i, primary |-> primary]

\* MonitorHandle::new (122-137), as the Option it returns extended to a Vec.
MonitorHandle_new(i, crtc, primary) ==
    IF crtc.info THEN <<MonitorHandle(i, primary)>> ELSE <<>>

\* MonitorHandle::dummy (139-149).
dummy == MonitorHandle(0, TRUE)

\* The loop of query_monitor_list (210-221) from the i-th CRTC on.
RECURSIVE QueryLoop(_, _, _, _, _)
QueryLoop(crtcs, primary, i, has_primary, available_monitors) ==
    IF i > Len(crtcs)
    THEN [has_primary |-> has_primary, available_monitors |-> available_monitors]
    ELSE IF ~crtcs[i].usable                                        \* 212-214
    THEN QueryLoop(crtcs, primary, i + 1, has_primary, available_monitors)
    ELSE LET is_primary == crtcs[i].output = primary               \* 217
         IN  QueryLoop(crtcs, primary, i + 1,
                       has_primary \/ is_primary,                   \* 218
                       available_monitors                           \* 219-220
                           \o MonitorHandle_new(i, crtcs[i], is_primary))

\* XConnection::query_monitor_list (189-232), its requests succeeding.
query_monitor_list(crtcs, primary) ==
    LET r == QueryLoop(crtcs, primary, 1, FALSE, <<>>)
    IN  IF ~r.has_primary /\ r.available_monitors # <<>>           \* 224-229
        THEN [r.available_monitors EXCEPT ![1].primary = TRUE]
        ELSE r.available_monitors

\* Iterator::find(|monitor| monitor.primary) of line 253, from index i on.
RECURSIVE find_primary(_, _)
find_primary(monitors, i) ==
    IF i > Len(monitors) THEN <<>>
    ELSE IF monitors[i].primary THEN <<monitors[i]>>
    ELSE find_primary(monitors, i + 1)

\* XConnection::primary_monitor (248-255) over the list available_monitors
\* returns.
primary_monitor(monitors) ==
    LET found == find_primary(monitors, 1)
    IN  IF found # <<>> THEN found[1] ELSE dummy

\* No query made yet.
NoQuery ==
    [called |-> FALSE, crtcs |-> <<>>, primary |-> 0, monitors |-> <<>>,
     primary_monitor |-> dummy]

InitQuery ==
    /\ query = NoQuery

\* The screens a query can meet.
InitQueries ==
    /\ query \in [called : {FALSE}, crtcs : CrtcLists, primary : PrimaryOutputs,
                  monitors : {<<>>}, primary_monitor : {dummy}]

\* query_monitor_list followed by primary_monitor over its result.
QueryMonitorList ==
    /\ ~query.called
    /\ LET monitors == query_monitor_list(query.crtcs, query.primary)
       IN  query' = [query EXCEPT !.called = TRUE,
                                  !.monitors = monitors,
                                  !.primary_monitor = primary_monitor(monitors)]
    /\ UNCHANGED <<monitor_handles, xserver, mon_last,
                   webVars, idVars, coreVars, ximVars, imeVars>>

NextQuery == QueryMonitorList

\* The cache of XConnection after construction: nothing cached; one monitor
\* attached.
InitMonitorList ==
    /\ monitor_handles = NoList
    /\ xserver = <<1>>
    /\ mon_last = NoCall

InitMonitor == InitMonitorList /\ InitQuery

\* What `served` is after a call.
Served == IF mon_last.op = "invalidate" THEN NoList
          ELSE IF mon_last.op = "available" /\ mon_last.ok THEN mon_last.ret
          ELSE mon_last.served

\* XConnection::available_monitors (234-246); fails: query_monitor_list
\* returns an error.
AvailableMonitors(fails) ==
    /\ IF monitor_handles.some                         \* 237
       THEN /\ ~fails
            /\ mon_last' = [op |-> "available", queried |-> FALSE, ok |-> TRUE,
                            ret |-> SomeList(monitor_handles.list),
                            before |-> monitor_handles, after |-> monitor_handles,
                            server |-> xserver, served |-> Served]
            /\ UNCHANGED monitor_handles
       ELSE IF fails                                   \* 239: `?`
       THEN /\ mon_last' = [op |-> "available", queried |-> TRUE, ok |-> FALSE,
                            ret |-> NoList,
                            before |-> monitor_handles, after |-> monitor_handles,
                            server |-> xserver, served |-> Served]
            /\ UNCHANGED monitor_handles
       ELSE /\ monitor_handles' = IF ~DISABLE_MONITOR_LIST_CACHING     \* 240-242
                                  THEN SomeList(xserver) ELSE monitor_handles
            /\ mon_last' = [op |-> "available", queried |-> TRUE, ok |-> TRUE,
                            ret |-> SomeList(xserver),
                            before |-> monitor_handles, after |-> monitor_handles',
                            server |-> xserver, served |-> Served]
    /\ UNCHANGED <<xserver, query, webVars, idVars, coreVars, ximVars, imeVars>>

\* XConnection::invalidate_cached_monitor_list (17-20).
InvalidateCachedMonitorList ==
    /\ monitor_handles' = NoList
    /\ mon_last' = [op |-> "invalidate", queried |-> FALSE, ok |-> TRUE,
                    ret |-> monitor_handles,
                    before |-> monitor_handles, after |-> NoList,
                    server |-> xserver, served |-> Served]
    /\ UNCHANGED <<xserver, query, webVars, idVars, coreVars, ximVars, imeVars>>

\* A monitor is attached, detached or the order changes.
ScreenChange(l) ==
    /\ l # xserver
    /\ xserver' = l
    /\ UNCHANGED <<monitor_handles, mon_last, query, webVars, idVars, coreVars, ximVars, imeVars>>

NextMonitor ==
    \/ \E fails \in BOOLEAN : AvailableMonitors(fails)
    \/ InvalidateCachedMonitorList
    \/ \E l \in MonitorLists : ScreenChange(l)

(***************************************************************************)
(* The IME requests of a window: winit-core/src/window.rs.                 *)
(***************************************************************************)

\* ImeCapabilities (1798, 1866-1874): the flags.
Capabilities == SUBSET {"purpose", "cursor_area", "surrounding_text"}

\* ImeRequestData (1885-1898): every field is an Option, "None" or a value.
RequestData ==
    [purpose : {"None", "a"}, cursor_area : {"None", "a", "b"},
     surrounding_text : {"None", "a"}]

\* ImeRequestData::default().
NoData == [purpose |-> "None", cursor_area |-> "None", surrounding_text |-> "None"]

\* bool ^ bool.
Xor(a, b) == (a \/ b) /\ ~(a /\ b)

\* Option<ImeEnableRequest>.
NoEnableRequest == [some |-> FALSE, capabilities |-> {}, request_data |-> NoData]

\* ImeEnableRequest::new, as a constructor that does not check the
\* surrounding text.
ImeEnableRequest_new_unchecked(capabilities, request_data) ==
    IF Xor("cursor_area" \in capabilities, request_data.cursor_area # "None")
    THEN NoEnableRequest
    ELSE IF Xor("purpose" \in capabilities, request_data.purpose # "None")
    THEN NoEnableRequest
    ELSE [some |-> TRUE, capabilities |-> capabilities, request_data |-> request_data]

\* ImeEnableRequest::new (1756-1770).
ImeEnableRequest_new(capabilities, request_data) ==
    IF Xor("cursor_area" \in capabilities, request_data.cursor_area # "None")
    THEN NoEnableRequest
    ELSE IF Xor("purpose" \in capabilities, request_data.purpose # "None")
    THEN NoEnableRequest
    ELSE IF Xor("surrounding_text" \in capabilities,
                request_data.surrounding_text # "None")
    THEN NoEnableRequest
    ELSE [some |-> TRUE, capabilities |-> capabilities, request_data |-> request_data]

\* The IME session of a window that has not enabled it.
Disabled == [enabled |-> FALSE, capabilities |-> {}, data |-> NoData]

\* The values of ImeEnableRequest: what ImeEnableRequest::new returns in Some.
EnableRequests ==
    {r \in {ImeEnableRequest_new(c, d) : c \in Capabilities, d \in RequestData} : r.some}

\* ImeRequest: Enable(request), Update(data), Disable.
Requests ==
    {[kind |-> "Enable", capabilities |-> r.capabilities, data |-> r.request_data] :
        r \in EnableRequests}
    \cup {[kind |-> "Update", capabilities |-> {}, data |-> d] : d \in RequestData}
    \cup {[kind |-> "Disable", capabilities |-> {}, data |-> NoData]}

\* The data of a session after Update(d): a field the capabilities do not
\* cover is ignored, a field that is None keeps its value.
UpdatedField(s, d, f) ==
    IF f \in s.capabilities /\ d[f] # "None" THEN d[f] ELSE s.data[f]

Updated(s, d) ==
    [purpose |-> UpdatedField(s, d, "purpose"),
     cursor_area |-> UpdatedField(s, d, "cursor_area"),
     surrounding_text |-> UpdatedField(s, d, "surrounding_text")]

\* Window::request_ime_update, as a backend that takes an Update for an
\* Enable.
request_ime_update_lenient(s, req) ==
    CASE req.kind = "Enable" ->
           IF s.enabled
           THEN [session |-> s, result |-> "AlreadyEnabled"]
           ELSE [session |-> [enabled |-> TRUE, capabilities |-> req.capabilities,
                              data |-> req.data],
                 result |-> "Ok"]
      [] req.kind = "Update" ->
           [session |-> [enabled |-> TRUE, capabilities |-> s.capabilities,
                         data |-> Updated(s, req.data)],
            result |-> "Ok"]
      [] req.kind = "Disable" -> [session |-> Disabled, result |-> "Ok"]

\* Window::request_ime_update (declared at 1216): the session after the
\* request, and the result.
request_ime_update(s, req) ==
    CASE req.kind = "Enable" ->
           IF s.enabled
           THEN [session |-> s, result |-> "AlreadyEnabled"]
           ELSE [session |-> [enabled |-> TRUE, capabilities |-> req.capabilities,
                              data |-> req.data],
                 result |-> "Ok"]
      [] req.kind = "Update" ->
           IF ~s.enabled
           THEN [session |-> s, result |-> "NotEnabled"]
           ELSE [session |-> [s EXCEPT !.data = Updated(s, req.data)], result |-> "Ok"]
      [] req.kind = "Disable" -> [session |-> Disabled, result |-> "Ok"]

\* Window::ime_capabilities (declared at 1223): None while disabled.
ime_capabilities(s) == [some |-> s.enabled, capabilities |-> s.capabilities]

\* The record of the last ImeEnableRequest::new call.
NoNew == [called |-> FALSE, capabilities |-> {}, request_data |-> NoData,
          result |-> NoEnableRequest]

\* The record of the last request_ime_update call.  was_enabled: the
\* session was enabled when it was made; rejected: it was an
\* Update rejected with NotEnabled, or an Enable that followed one;
\* recovered: it was an Update accepted after that Enable.
NoRequest ==
    [kind |-> "none", data |-> NoData, was_enabled |-> FALSE, result |-> "none",
     rejected |-> FALSE, recovered |-> FALSE]

\* A window after construction: IME is not enabled.
InitIme ==
    /\ ime_session = Disabled
    /\ enable_request = NoNew
    /\ ime_req = NoRequest

\* The application calls ImeEnableRequest::new.
NewEnableRequest(capabilities, request_data) ==
    /\ enable_request' = [called |-> TRUE, capabilities |-> capabilities,
                          request_data |-> request_data,
                          result |-> ImeEnableRequest_new(capabilities, request_data)]
    /\ UNCHANGED <<ime_session, ime_req, webVars, idVars, coreVars, ximVars, monitorVars>>

\* The application calls Window::request_ime_update.
RequestImeUpdate(req) ==
    /\ LET r == request_ime_update(ime_session, req)
       IN  /\ ime_session' = r.session
           /\ ime_req' = [kind |-> req.kind, data |-> req.data,
                          was_enabled |-> ime_session.enabled,
                          result |-> r.result,
                          rejected |-> \/ r.result = "NotEnabled"
                                       \/ ime_req.rejected /\ req.kind = "Enable",
                          recovered |-> (req.kind = "Update" /\ r.result = "Ok"
                                            /\ ime_req.rejected)]
    /\ UNCHANGED <<enable_request, webVars, idVars, coreVars, ximVars, monitorVars>>

\* Window::set_ime_cursor_area (1102-1109).
SetImeCursorArea(area) ==
    /\ IF ime_capabilities(ime_session).some
            /\ "cursor_area" \in ime_capabilities(ime_session).capabilities
       THEN LET req == [kind |-> "Update", capabilities |-> {},
                        data |-> [NoData EXCEPT !.cursor_area = area]]
                r == request_ime_update(ime_session, req)
            IN  /\ ime_session' = r.session
                /\ ime_req' = [kind |-> "Update", data |-> req.data,
                               was_enabled |-> ime_session.enabled,
                               result |-> r.result,
                               rejected |-> (r.result = "NotEnabled"),
                               recovered |-> (r.result = "Ok" /\ ime_req.rejected)]
       ELSE UNCHANGED <<ime_session, ime_req>>
    /\ UNCHANGED <<enable_request, webVars, idVars, coreVars, ximVars, monitorVars>>

NextEnableRequest ==
    \E c \in Capabilities, d \in RequestData : NewEnableRequest(c, d)

NextIme ==
    \/ \E req \in Requests : RequestImeUpdate(req)
    \/ \E a \in {"a", "b"} : SetImeCursorArea(a)

(***************************************************************************)
(* The surrounding text of an IME request: winit-core/src/window.rs.       *)
(***************************************************************************)

MaxRuns == 2

\* ImeSurroundingText::MAX_TEXT_BYTES (1651), the literal of line 1681.
MAX_TEXT_BYTES == 4000

\* A String, as its runs of code points of one UTF-8 width: "граница" is
\* one run of 7 code points of 2 bytes, 8000 times 'a' one run of 8000 of 1.
Runs == [width : {1, 2}, count : {1, 1999, 2000, 3999, 4000}]

Texts == UNION {[1 .. n -> Runs] : n \in 0 .. MaxRuns}

\* The usize arguments tried for cursor and anchor.
Positions == {0, 1, 2, 3, 3997, 3998, 3999, 4000}

\* str::len: the length in bytes.
RECURSIVE len(_)
len(t) ==
    IF t = <<>> THEN 0 ELSE Head(t).width * Head(t).count + len(Tail(t))

\* The byte at index i < len(t) is not a UTF-8 continuation byte.
RECURSIVE StartsCodePoint(_, _)
StartsCodePoint(t, i) ==
    LET n == Head(t).width * Head(t).count
    IN  IF i < n THEN i % Head(t).width = 0 ELSE StartsCodePoint(Tail(t), i - n)

\* str::is_char_boundary: 0 and len are boundaries, an index beyond len is
\* not, an index within is one when a code point starts there.
is_char_boundary(t, index) ==
    IF index = 0 THEN TRUE
    ELSE IF index >= len(t) THEN index = len(t)
    ELSE StartsCodePoint(t, index)

\* Result<ImeSurroundingText, ImeSurroundingTextError>.
SurroundingOk(text, cursor, anchor) ==
    [ok |-> TRUE, err |-> "none", text |-> text, cursor |-> cursor, anchor |-> anchor]

SurroundingErr(e) ==
    [ok |-> FALSE, err |-> e, text |-> <<>>, cursor |-> 0, anchor |-> 0]

\* ImeSurroundingText::new, as a constructor that accepts MAX_TEXT_BYTES
\* bytes.
ImeSurroundingText_new_inclusive(text, cursor, anchor) ==
    IF ~(len(text) <= MAX_TEXT_BYTES)
    THEN SurroundingErr("TextTooLong")
    ELSE IF ~(is_char_boundary(text, cursor) /\ cursor <= len(text))
    THEN SurroundingErr("CursorBadPosition")
    ELSE IF ~(is_char_boundary(text, anchor) /\ anchor <= len(text))
    THEN SurroundingErr("AnchorBadPosition")
    ELSE SurroundingOk(text, cursor, anchor)

\* ImeSurroundingText::new (1676-1700).
ImeSurroundingText_new(text, cursor, anchor) ==
    IF ~(len(text) < MAX_TEXT_BYTES)
    THEN SurroundingErr("TextTooLong")
    ELSE IF ~(is_char_boundary(text, cursor) /\ cursor <= len(text))
    THEN SurroundingErr("CursorBadPosition")
    ELSE IF ~(is_char_boundary(text, anchor) /\ anchor <= len(text))
    THEN SurroundingErr("AnchorBadPosition")
    ELSE SurroundingOk(text, cursor, anchor)

\* An ImeSurroundingText::new call: its arguments and, once it has
\* returned, its result.
NoSurrounding ==
    [called |-> FALSE, text |-> <<>>, cursor |-> 0, anchor |-> 0,
     result |-> SurroundingErr("none")]

InitSurrounding ==
    /\ surrounding = NoSurrounding

\* The arguments the application is about to call ImeSurroundingText::new
\* with.
InitSurroundingText ==
    surrounding \in {[NoSurrounding EXCEPT !.text = t, !.cursor = c, !.anchor = a] :
                        t \in Texts, c \in Positions, a \in Positions}

\* ImeSurroundingText::new runs on the arguments.
NewSurroundingText ==
    /\ ~surrounding.called
    /\ surrounding' =
          [surrounding EXCEPT
              !.called = TRUE,
              !.result = ImeSurroundingText_new(surrounding.text, surrounding.cursor,
                                                surrounding.anchor)]
    /\ UNCHANGED <<button, force, webVars, idVars, ximVars, monitorVars, imeVars>>

NextSurroundingText == NewSurroundingText

(***************************************************************************)
(* Pointer buttons and touch force: winit-core/src/event.rs.               *)
(***************************************************************************)

MaxButton == 16

\* The u16 values tried.
U16s == 0 .. MaxButton \cup {65535}

\* MouseButton (1052-1059).
Button(name) == [name |-> name, n |-> 0]
Other(n) == [name |-> "Other", n |-> n]
MouseButtons ==
    {Button(b) : b \in {"Left", "Right", "Middle", "Back", "Forward"}}
    \cup {Other(n) : n \in U16s}

\* ButtonSource (505-518): Mouse(MouseButton), Touch { finger_id, force },
\* Unknown(u16).  The force of a touch is kept by its variant only.
Mouse(b) == [kind |-> "Mouse", button |-> b, finger_id |-> 0, force |-> "None", n |-> 0]
Touch(f, fo) ==
    [kind |-> "Touch", button |-> Button("none"), finger_id |-> f, force |-> fo, n |-> 0]
Unknown(n) ==
    [kind |-> "Unknown", button |-> Button("none"), finger_id |-> 0, force |-> "None",
     n |-> n]
ButtonSources ==
    {Mouse(b) : b \in MouseButtons}
    \cup {Touch(f, fo) : f \in 0 .. 2, fo \in {"None", "Calibrated", "Normalized"}}
    \cup {Unknown(n) : n \in U16s}

\* ButtonSource::mouse_button, as a conversion that knows the three
\* buttons of a classic mouse only.
mouse_button_three(self) ==
    CASE self.kind = "Mouse" -> self.button
      [] self.kind = "Touch" -> Button("Left")
      [] self.kind = "Unknown" ->
           CASE self.n = 0 -> Button("Left")
             [] self.n = 1 -> Button("Middle")
             [] self.n = 2 -> Button("Right")
             [] OTHER -> Other(self.n)

\* ButtonSource::mouse_button (524-537).
mouse_button(self) ==
    CASE self.kind = "Mouse" -> self.button
      [] self.kind = "Touch" -> Button("Left")
      [] self.kind = "Unknown" ->
           CASE self.n = 0 -> Button("Left")
             [] self.n = 1 -> Button("Middle")
             [] self.n = 2 -> Button("Right")
             [] self.n = 3 -> Button("Back")
             [] self.n = 4 -> Button("Forward")
             [] OTHER -> Other(self.n)

\* A ButtonSource::mouse_button call: its receiver and, once it has
\* returned, its result.
NoButtonCall == [called |-> FALSE, self |-> Unknown(0), result |-> Button("none")]

InitButton ==
    /\ button = NoButtonCall

\* The ButtonSource the application is about to convert.
InitButtonSource ==
    button \in {[NoButtonCall EXCEPT !.self = b] : b \in ButtonSources}

\* ButtonSource::mouse_button runs on the receiver.
MouseButtonCall ==
    /\ ~button.called
    /\ button' = [button EXCEPT !.called = TRUE, !.result = mouse_button(button.self)]
    /\ UNCHANGED <<surrounding, force, webVars, idVars, ximVars, monitorVars, imeVars>>

NextButton == MouseButtonCall

\* An f64: a rational in lowest terms with a positive denominator, an
\* infinity or NaN.  A quotient is kept exact, its rounding to the nearest
\* f64 is not modelled.
RECURSIVE Gcd(_, _)
Gcd(a, b) == IF b = 0 THEN a ELSE Gcd(b, a % b)

Abs(x) == IF x < 0 THEN -x ELSE x

Frac(n, d) ==
    LET g == Gcd(Abs(n), Abs(d))
        sgn == IF d < 0 THEN -1 ELSE 1
    IN  [kind |-> "finite", num |-> sgn * (n \div g), den |-> sgn * (d \div g)]

Infinite(k) == [kind |-> k, num |-> 0, den |-> 1]

\* The f64 values tried: -1.0, 0.0, 0.25, 0.5, 1.0, 2.5, 5.0.
F64s == {Frac(q, 4) : q \in {-4, 0, 1, 2, 4, 10, 20}}

\* f64 / f64 (IEEE 754) of finite operands.
f64_div(a, b) ==
    IF b.num = 0
    THEN IF a.num = 0 THEN Infinite("NaN")
         ELSE IF a.num > 0 THEN Infinite("inf") ELSE Infinite("-inf")
    ELSE Frac(a.num * b.den, a.den * b.num)

\* f64::clamp(0.0, 1.0).
f64_clamp01(a) ==
    CASE a.kind = "inf" -> Frac(1, 1)
      [] a.kind = "-inf" -> Frac(0, 1)
      [] a.kind = "NaN" -> a
      [] OTHER -> IF a.num < 0 THEN Frac(0, 1)
                  ELSE IF a.num > a.den THEN Frac(1, 1) ELSE a

\* Force (984-1007).
Calibrated(f, m) ==
    [kind |-> "Calibrated", force |-> f, max_possible_force |-> m]
Normalized(f) ==
    [kind |-> "Normalized", force |-> f, max_possible_force |-> Frac(0, 1)]
Forces ==
    {Calibrated(f, m) : f \in F64s, m \in F64s} \cup {Normalized(f) : f \in F64s}

\* Force::normalized, as a conversion that keeps the result in the range
\* 0.0 to 1.0 its documentation names.
normalized_clamped(self) ==
    CASE self.kind = "Calibrated" ->
           f64_clamp01(f64_div(self.force, self.max_possible_force))
      [] self.kind = "Normalized" -> f64_clamp01(self.force)

\* Force::normalized (1015-1020).
normalized(self) ==
    CASE self.kind = "Calibrated" -> f64_div(self.force, self.max_possible_force)
      [] self.kind = "Normalized" -> self.force

\* A Force::normalized call: its receiver and, once it has returned, its
\* result.
NoForceCall == [called |-> FALSE, self |-> Normalized(Frac(0, 1)), result |-> Frac(0, 1)]

InitForce ==
    /\ force = NoForceCall

\* The Force the application is about to normalize.
InitForces ==
    force \in {[NoForceCall EXCEPT !.self = f] : f \in Forces}

\* Force::normalized runs on the receiver.
NormalizedCall ==
    /\ ~force.called
    /\ force' = [force EXCEPT !.called = TRUE, !.result = normalized(force.self)]
    /\ UNCHANGED <<surrounding, button, webVars, idVars, ximVars, monitorVars, imeVars>>

NextForce == NormalizedCall

InitCore == InitSurrounding /\ InitButton /\ InitForce

(***************************************************************************)
(* The window id counter at the width of usize: runner.rs 53, 472-479.     *)
(* `id` above is the same cell while it is below MaxWindows.               *)
(***************************************************************************)

MaxIds == 4

\* usize on wasm32 has 32 bits; a value is kept as its two 16-bit halves.
HalfMax == 65535

Usize(hi, lo) == [hi |-> hi, lo |-> lo]

UsizeMax == Usize(HalfMax, HalfMax)

\* Option<usize>.
NoUsize == [some |-> FALSE, value |-> Usize(0, 0)]
SomeUsize(v) == [some |-> TRUE, value |-> v]

\* usize::checked_add(1), as usize::wrapping_add(1).
checked_add_1_wrapping(v) ==
    IF v.lo < HalfMax THEN SomeUsize(Usize(v.hi, v.lo + 1))
    ELSE IF v.hi < HalfMax THEN SomeUsize(Usize(v.hi + 1, 0))
    ELSE SomeUsize(Usize(0, 0))

\* usize::checked_add(1) (476): None on overflow.
checked_add_1(v) ==
    IF v.lo < HalfMax THEN SomeUsize(Usize(v.hi, v.lo + 1))
    ELSE IF v.hi < HalfMax THEN SomeUsize(Usize(v.hi + 1, 0))
    ELSE NoUsize

\* The counter of a loop that has made `start` generate_id calls, and the
\* calls observed from then on: the values they returned, and whether the
\* last one panicked.
Counter(start) ==
    [cell |-> start, start |-> start, returned |-> <<>>, panicked |-> FALSE]

\* Execution.id after Shared::new (203).
Fresh == Counter(Usize(0, 0))

InitId ==
    /\ gen = Fresh

\* The halves of the counter values the observation starts at.
Halves == {0, 1, 2, HalfMax - 2, HalfMax - 1, HalfMax}

InitCounter ==
    gen \in {Counter(Usize(h, l)) : h \in Halves, l \in Halves}

\* Shared::generate_id (474-479).
GenerateId ==
    /\ ~gen.panicked
    /\ Len(gen.returned) < MaxIds
    /\ LET next == checked_add_1(gen.cell)
       IN  IF next.some
           THEN gen' = [gen EXCEPT !.cell = next.value,
                                   !.returned = Append(@, gen.cell)]
           ELSE gen' = [gen EXCEPT !.panicked = TRUE]
    /\ UNCHANGED <<webVars, ximVars, monitorVars, imeVars, coreVars>>

NextId == GenerateId

\* Everything after construction.
Init == InitWeb /\ InitXim /\ InitMonitor /\ InitIme /\ InitCore /\ InitId

(***************************************************************************)
(* Operations called from outside the runner.                              *)
(***************************************************************************)

\* The assert! of Shared::start (253), as a runner that ignores it.
start_allowed_any(r) == TRUE

\* The assert! of Shared::start (253).
start_allowed(r) == r = "Pending"

\* Shared::start (251-264) up to the first handle_event of init() (486-492).
\* The runner is one that passes the assert! (253).
Start ==
    /\ TopLevel
    /\ start_allowed(runner)                           \* 253
    /\ IF monitor_initializing
       THEN /\ runner' = "Initializing"
            /\ state' = "Init"                         \* Runner::new (120)
            /\ hist' = [hist EXCEPT !.starts = @ + 1]
            /\ UNCHANGED <<stackVars, log, start_cause, envVars>>
       ELSE /\ runner' = "Running"
            /\ state' = "Init"
            /\ run_until_cleared(<<NewEvents("Init"), CreateSurfaces>>)
            /\ start_cause' = NoFields
            /\ in_start' = TRUE
            /\ hist' = [CycleStart(hist) EXCEPT !.origin = "init", !.starts = @ + 1]
            /\ UNCHANGED <<panicked, envVars>>
    /\ UNCHANGED <<control_flow, exit, events, id, all_canvases, redraw_pending,
                   destroy_pending, listeners, proxy_woken, schedVars>>
    /\ UNCHANGED otherVars

\* Shared::start (251-253) on a runner that fails the assert!: it panics.
StartRejected ==
    /\ TopLevel
    /\ Call
    /\ ~start_allowed(runner)                          \* 253
    /\ panicked' = TRUE
    /\ hist' = [hist EXCEPT !.starts = @ + 1]
    /\ UNCHANGED <<progVars, pc, stage, nxt, batch, redraw_events, destroying, in_start,
                   monitor_initializing, microtask, dropped, nextSeq, timeVars, log>>
    /\ UNCHANGED otherVars

\* Shared::start_delayed (266-277), called when the monitor handler has
\* finished initializing.
StartDelayed ==
    /\ TopLevel
    /\ monitor_initializing
    /\ monitor_initializing' = FALSE
    /\ CASE runner = "Initializing" ->
              /\ runner' = "Running"
              /\ run_until_cleared(<<NewEvents("Init"), CreateSurfaces>>)
              /\ start_cause' = NoFields
              /\ in_start' = TRUE
              /\ hist' = [CycleStart(hist) EXCEPT !.origin = "init", !.queued = events]
              /\ UNCHANGED panicked
         [] runner = "Pending" ->
              UNCHANGED <<runner, stackVars, log, hist, start_cause>>
         [] OTHER ->                                   \* 271: unreachable!()
              /\ panicked' = TRUE
              /\ runner' = "Pending"
              /\ UNCHANGED <<pc, stage, nxt, batch, redraw_events, destroying,
                             in_start, log, hist, start_cause>>
    /\ UNCHANGED <<state, control_flow, exit, events, id, all_canvases, redraw_pending,
                   destroy_pending, listeners, proxy_woken, microtask, dropped, nextSeq, ops,
                   schedVars>>
    /\ UNCHANGED otherVars

\* The events a listener can submit: device events come from the listeners
\* of set_listener (310-442), window events from the canvas of a window
\* whose handle is alive.  The filter of the device listeners is
\* OnDeviceInput's; here a device event is one that has passed it.
Submittable ==
    {<<"DeviceEvent", NoWindow>> : x \in {y \in {1} : listeners}}
        \cup {<<"WindowEvent", w>> : w \in Live}

Batches == UNION {[1 .. n -> Submittable] : n \in 1 .. MaxBatch}

Numbered(kinds) == [i \in 1 .. Len(kinds) |-> Ev(kinds[i][1], "-", kinds[i][2], nextSeq + i - 1)]

ClosedSend(h) ==
    [h EXCEPT !.closedSend = @ \/ runner = "Destroyed" \/ (runner = "Running" /\ state = "Exit")]

\* Shared::send_event (511-513) and Shared::send_events (552-597), called by
\* a listener with one event or several.
SendEvents(kinds) ==
    /\ Callable
    /\ Call
    /\ nextSeq' = nextSeq + Len(kinds)
    /\ send_events(Numbered(kinds), ClosedSend(hist), CycleStart(hist))
    /\ UNCHANGED <<runner, state, control_flow, exit, id, all_canvases, redraw_pending,
                   destroy_pending, listeners, proxy_woken, in_start,
                   monitor_initializing, microtask, dropped, schedVars>>
    /\ UNCHANGED otherVars

\* Shared::request_redraw (481-484).
RequestRedraw(w) ==
    /\ Callable
    /\ Call
    /\ w \in Live
    /\ redraw_pending' = redraw_pending \cup {w}
    /\ send_events(<<>>,
          [hist EXCEPT !.reqInCycle = IF pc = "callback" THEN @ \cup {w} ELSE @,
                       !.reqPreDrain = IF pc = "callback" /\ stage \in {"batch", "destroy"}
                                       THEN @ \cup {w} ELSE @,
                       !.reqTwice = IF pc = "callback" /\ stage \in {"batch", "destroy"}
                                       /\ w \in hist.reqPreDrain
                                    THEN @ \cup {w} ELSE @,
                       !.reqPostDrain = IF pc = "callback" /\ stage \in {"redraw", "atw"}
                                       THEN @ \cup {w} ELSE @],
          [CycleStart(hist) EXCEPT !.reqInCycle = {w}, !.reqPreDrain = {w}])
    /\ UNCHANGED <<runner, state, control_flow, exit, id, all_canvases,
                   destroy_pending, listeners, proxy_woken, in_start,
                   monitor_initializing, microtask, dropped, nextSeq, schedVars>>
    /\ UNCHANGED otherVars

\* Shared::notify_destroy_window (247-249), called when the handle of window
\* w is dropped.
NotifyDestroyWindow(w) ==
    /\ Callable
    /\ Call
    /\ w \in Live
    /\ destroy_pending' = Append(destroy_pending, w)
    /\ dropped' = dropped \cup {w}
    /\ hist' = IF pc = "callback" /\ w \in redraw_pending \cup Range(redraw_events)
               THEN [hist EXCEPT !.notified = @ \cup {w},
                                 !.notifiedPre = IF stage \in {"batch", "destroy"}
                                                 THEN @ \cup {w} ELSE @,
                                 !.dropOrder = Append(@, w)]
               ELSE [hist EXCEPT !.dropOrder = Append(@, w)]
    /\ UNCHANGED <<runner, state, control_flow, exit, events, id, all_canvases,
                   redraw_pending, listeners, proxy_woken, stackVars,
                   monitor_initializing, microtask, nextSeq, timeVars, log>>
    /\ UNCHANGED otherVars

\* Shared::generate_id (474-479) and Shared::add_canvas (238-245): the
\* application creates a window from a callback.
CreateWindow ==
    /\ InCallback
    /\ Call
    /\ id < MaxWindows
    /\ id' = id + 1
    /\ all_canvases' = all_canvases \cup {id}
    /\ UNCHANGED <<runner, state, control_flow, exit, events, redraw_pending,
                   destroy_pending, listeners, proxy_woken, stackVars,
                   monitor_initializing, microtask, dropped, nextSeq, timeVars, log, hist>>
    /\ UNCHANGED otherVars

\* Shared::set_control_flow (823-825), from a callback; t is the Instant of
\* ControlFlow::WaitUntil.
SetControlFlow(cf, t) ==
    /\ InCallback
    /\ Call
    /\ <<cf, IF cf = "WaitUntil" THEN t ELSE NoInstant>> # <<control_flow, deadline>>
    /\ control_flow' = cf
    /\ deadline' = IF cf = "WaitUntil" THEN t ELSE NoInstant
    /\ hist' = [hist EXCEPT !.setInAtw = (stage = "atw")]
    /\ UNCHANGED <<runner, state, exit, events, id, all_canvases, redraw_pending,
                   destroy_pending, listeners, proxy_woken, stackVars,
                   monitor_initializing, microtask, dropped, nextSeq, log,
                   now, state_start, state_end, scheduled, start_cause>>
    /\ UNCHANGED otherVars

\* Shared::exit (827-829): ActiveEventLoop::exit, from a callback or from
\* code of the application that runs between two invocations.
Exit ==
    /\ Callable
    /\ runner = "Running"       \* the application has been handed the ActiveEventLoop
    /\ Call
    /\ ~exit
    /\ exit' = TRUE
    /\ hist' = [hist EXCEPT !.exitCalled = TRUE, !.exitInCycle = (pc = "callback"),
                            !.exitSeq = nextSeq,
                            !.exitQueue = {e.seq : e \in Range(events)},
                            !.exitAt = [stage |-> stage, log |-> Len(log), batch |-> batch,
                                        destroy |-> Range(destroy_pending),
                                        redraw |-> IF stage \in {"batch", "destroy"}
                                                   THEN redraw_pending
                                                   ELSE Range(redraw_events)]]
    /\ UNCHANGED <<runner, state, control_flow, events, id, all_canvases, redraw_pending,
                   destroy_pending, listeners, proxy_woken, stackVars,
                   monitor_initializing, microtask, dropped, nextSeq, timeVars, log>>
    /\ UNCHANGED otherVars

\* Time passes.
Tick ==
    /\ Callable
    /\ Call
    /\ now < MaxTime
    /\ now' = now + 1
    /\ UNCHANGED <<progVars, stackVars, monitor_initializing, microtask, dropped, nextSeq,
                   deadline, state_start, state_end, scheduled, start_cause, log, hist>>
    /\ UNCHANGED otherVars


\* EventLoopProxy::wake_up: sets the flag that event_loop_proxy.take() (691)
\* reads and clears; callable from any thread.
ProxyWakeUp ==
    /\ Callable
    /\ Call
    /\ ~proxy_woken
    /\ nextSeq' = nextSeq + 1
    /\ proxy_woken' = TRUE
    /\ UNCHANGED <<runner, state, control_flow, exit, events, id, all_canvases,
                   redraw_pending, destroy_pending, listeners, stackVars,
                   monitor_initializing, microtask, dropped, timeVars, log, hist>>
    /\ UNCHANGED otherVars

\* Shared::send_proxy_wake_up (519-547).
SendProxyWakeUp(local) ==
    /\ Callable
    /\ Call
    /\ nextSeq' = nextSeq + 1
    /\ IF is_closed                                    \* 521-523
       THEN /\ hist' = ClosedSend(hist)
            /\ UNCHANGED <<events, stackVars, microtask, log, start_cause>>
       ELSE IF local /\ ~Borrowed /\ runner = "Running"   \* 525-543
       THEN /\ microtask' = TRUE
            /\ UNCHANGED <<events, stackVars, log, hist, start_cause>>
       ELSE /\ send_events(<<Ev("UserWakeUp", "-", NoWindow, nextSeq)>>,
                           hist, CycleStart(hist))
            /\ UNCHANGED <<in_start, microtask>>
    /\ UNCHANGED <<runner, state, control_flow, exit, id, all_canvases, redraw_pending,
                   destroy_pending, listeners, proxy_woken, monitor_initializing, dropped,
                   schedVars>>
    /\ UNCHANGED otherVars

\* The closure queued at 530-540 runs, before any other task.
RunMicrotask ==
    /\ pc = "idle" /\ ~panicked
    /\ microtask
    /\ microtask' = FALSE
    /\ send_events(<<Ev("UserWakeUp", "-", NoWindow, nextSeq - 1)>>,
                   ClosedSend(hist), CycleStart(hist))
    /\ UNCHANGED <<runner, state, control_flow, exit, id, all_canvases, redraw_pending,
                   destroy_pending, listeners, proxy_woken, in_start,
                   monitor_initializing, dropped, nextSeq, ops, schedVars>>
    /\ UNCHANGED otherVars

\* The pageshow listener of set_listener (287-292).
PageShow ==
    /\ TopLevel
    /\ Call
    /\ listeners
    /\ nextSeq' = nextSeq + 1
    /\ send_events(<<Ev("Resumed", "-", NoWindow, nextSeq)>>,
                   ClosedSend(hist), CycleStart(hist))
    /\ UNCHANGED <<runner, state, control_flow, exit, id, all_canvases, redraw_pending,
                   destroy_pending, listeners, proxy_woken, in_start,
                   monitor_initializing, microtask, dropped, schedVars>>
    /\ UNCHANGED otherVars

\* Shared::handle_unload (641-649), with the apply_control_flow it calls.
handle_unload ==
    /\ exit' = TRUE
    /\ state' = IF runner = "Running" THEN "Exit" ELSE state   \* 704-705, 740-742
    /\ state_start' = IF runner = "Running" THEN NoInstant ELSE state_start
    /\ state_end' = IF runner = "Running" THEN NoInstant ELSE state_end
    /\ scheduled' = <<>>                               \* the old State is dropped
    /\ runner' = "Destroyed"
    /\ hist' = [hist EXCEPT !.unloaded = TRUE, !.cancelled = @ \/ scheduled # <<>>]

\* The pagehide listener of set_listener (296-303).
PageHide(persisted) ==
    /\ TopLevel
    /\ Call
    /\ listeners
    /\ IF persisted
       THEN /\ nextSeq' = nextSeq + 1
            /\ send_events(<<Ev("Suspended", "-", NoWindow, nextSeq)>>,
                           ClosedSend(hist), CycleStart(hist))
            /\ UNCHANGED <<runner, state, exit, in_start, state_start, state_end, scheduled>>
       ELSE /\ handle_unload
            /\ UNCHANGED <<events, stackVars, nextSeq, log, start_cause>>
    /\ UNCHANGED <<control_flow, id, all_canvases, redraw_pending, destroy_pending,
                   listeners, proxy_woken, monitor_initializing, microtask, dropped,
                   now, deadline>>
    /\ UNCHANGED otherVars

\* Shared::poll (495-498): the Schedule held by State::Poll fires.
Poll ==
    /\ TopLevel
    /\ scheduled # <<>> /\ Head(scheduled).kind = "Poll"
    /\ scheduled' = Tail(scheduled)
    /\ run_until_cleared(<<NewEvents("Poll")>>)
    /\ start_cause' = NoFields
    /\ hist' = [CycleStart(hist) EXCEPT !.origin = "poll", !.polls = Min(@ + 1, 2)]
    /\ UNCHANGED <<progVars, in_start, panicked, envVars, now, deadline, state_start,
                   state_end>>
    /\ UNCHANGED otherVars

\* Shared::resume_time_reached (502-506): the Schedule held by
\* State::WaitUntil fires.
ResumeTimeReached ==
    /\ TopLevel
    /\ scheduled # <<>> /\ Head(scheduled).kind = "Timeout"
    /\ now >= Head(scheduled).due
    /\ scheduled' = Tail(scheduled)
    /\ run_until_cleared(<<NewEvents("ResumeTimeReached")>>)
    /\ start_cause' = timer_cause(Head(scheduled))
    /\ hist' = [CycleStart(hist) EXCEPT !.origin = "timer", !.firedAt = now]
    /\ UNCHANGED <<progVars, in_start, panicked, envVars, now, deadline, state_start,
                   state_end>>
    /\ UNCHANGED otherVars


(***************************************************************************)
(* One run_until_cleared invocation (616-639), split at the callbacks.     *)
(***************************************************************************)

\* Shared::handle_event (654-669) up to the start of the callback that
\* Runner::handle_single_event (137-164) makes.
HandleEvent ==
    /\ pc = "handle" /\ ~panicked
    /\ exit' = (exit \/ is_closed)                     \* 655-657
    /\ CASE runner = "Running" ->                      \* 659-661
              /\ log' = Append(log, nxt)
              /\ hist' = Delivered(hist, nxt)
              /\ pc' = "callback"
              /\ UNCHANGED <<events, panicked>>
         [] runner = "Pending" ->                      \* 664, then 675 fails
              /\ events' = Append(events, nxt)
              /\ pc' = "stage"
              /\ UNCHANGED <<log, hist, panicked>>
         [] runner = "Destroyed" ->                    \* 666
              /\ pc' = "stage"
              /\ UNCHANGED <<events, log, hist, panicked>>
         [] runner = "Initializing" ->                 \* 668: unreachable!()
              /\ panicked' = TRUE
              /\ UNCHANGED <<events, pc, log, hist>>
    /\ nxt' = NoEvent
    /\ UNCHANGED <<runner, state, control_flow, id, all_canvases, redraw_pending,
                   destroy_pending, listeners, proxy_woken, stage, batch, redraw_events,
                   destroying, in_start, envVars, timeVars>>
    /\ UNCHANGED otherVars

\* The condition of handle_event (675), as a runner that never takes an
\* event out of the queue.
takes_next_never(exiting, r) == FALSE

\* The condition of handle_event (675), as a runner that goes on taking
\* events out of the queue while the loop is exiting.
takes_next_exiting(exiting, r) == r = "Running"

\* The condition of handle_event (671-675) under which it takes the next
\* event out of the queue: the loop is not exiting and a Runner exists.
takes_next(exiting, r) == ~exiting /\ r = "Running"

\* The callback returns: the rest of Shared::handle_event (671-698).  The
\* window commands run at 678-683 submit no event.
CallbackReturn ==
    /\ InCallback
    /\ IF takes_next(exit, runner)                     \* 675
       THEN LET queue == IF proxy_woken                \* 691
                         THEN Append(events, UserWakeUp) ELSE events
            IN  /\ proxy_woken' = FALSE
                /\ IF queue # <<>>                     \* 693-697
                   THEN /\ nxt' = Head(queue)
                        /\ events' = Tail(queue)
                        /\ pc' = "handle"
                   ELSE /\ pc' = "stage"
                        /\ UNCHANGED <<events, nxt>>
       ELSE /\ pc' = "stage"
            /\ UNCHANGED <<events, nxt, proxy_woken>>
    /\ UNCHANGED <<runner, state, control_flow, exit, id, all_canvases, redraw_pending,
                   destroy_pending, listeners, stage, batch, redraw_events, destroying,
                   in_start, panicked, envVars, timeVars, log, hist>>
    /\ UNCHANGED otherVars

\* run_until_cleared 617-619: the next event of the iterator.
RunBatch ==
    /\ pc = "stage" /\ ~panicked
    /\ stage = "batch"
    /\ IF batch # <<>>
       THEN /\ nxt' = Head(batch)
            /\ batch' = Tail(batch)
            /\ pc' = "handle"
            /\ UNCHANGED stage
       ELSE /\ stage' = "destroy"                      \* 620
            /\ UNCHANGED <<nxt, batch, pc>>
    /\ UNCHANGED <<progVars, redraw_events, destroying, in_start, panicked, envVars,
                   timeVars, log, hist>>
    /\ UNCHANGED otherVars

\* Shared::process_destroy_pending_windows (601-610), one turn of its loop,
\* and, when the loop ends, the drain of redraw_pending (623).
ProcessDestroyPendingWindows ==
    /\ pc = "stage" /\ ~panicked
    /\ stage = "destroy"
    /\ LET pending == remove_redraw(redraw_pending, destroying)          \* 608
       IN  IF destroy_pending # <<>>
           THEN /\ destroy_pending' = Tail(destroy_pending)               \* 602
                /\ all_canvases' = retain(all_canvases, Head(destroy_pending)) \* 603
                /\ nxt' = Destroyed(Head(destroy_pending))                \* 604-607
                /\ destroying' = Head(destroy_pending)
                /\ redraw_pending' = pending
                /\ pc' = "handle"
                /\ UNCHANGED <<stage, redraw_events>>
           ELSE /\ redraw_events' \in DrainRedrawPending(pending)         \* 623
                /\ redraw_pending' = {}
                /\ destroying' = NoWindow
                /\ stage' = "redraw"
                /\ UNCHANGED <<destroy_pending, all_canvases, nxt, pc>>
    /\ UNCHANGED <<runner, state, control_flow, exit, events, id, listeners, proxy_woken,
                   batch, in_start, panicked, envVars, timeVars, log, hist>>
    /\ UNCHANGED otherVars

\* run_until_cleared 624-631: the next RedrawRequested, then AboutToWait.
RunRedraw ==
    /\ pc = "stage" /\ ~panicked
    /\ stage = "redraw"
    /\ IF redraw_events # <<>>
       THEN /\ nxt' = RedrawRequested(Head(redraw_events))
            /\ redraw_events' = Tail(redraw_events)
            /\ UNCHANGED stage
       ELSE /\ nxt' = AboutToWait
            /\ stage' = "atw"
            /\ UNCHANGED redraw_events
    /\ pc' = "handle"
    /\ UNCHANGED <<progVars, batch, destroying, in_start, panicked, envVars, timeVars,
                   log, hist>>
    /\ UNCHANGED otherVars

\* run_until_cleared 633, Shared::apply_control_flow up to line 738: the
\* new State is built, and with it the Schedule it holds, while Runner.state
\* still holds the previous State.
ApplyControlFlow ==
    /\ pc = "stage" /\ ~panicked
    /\ stage = "atw"
    /\ scheduled' = scheduled \o new_schedules
    /\ stage' = "apply"
    /\ UNCHANGED <<progVars, pc, nxt, batch, redraw_events, destroying, in_start, panicked,
                   envVars, now, deadline, state_start, state_end, start_cause, log, hist>>
    /\ UNCHANGED otherVars

\* The rest of the invocation: the assignment of apply_control_flow
\* (740-742), then Shared::handle_loop_destroyed (745-777) when the loop is
\* closed (636-638); when the invocation was init()'s, start / start_delayed
\* goes on with set_listener (262, 276).
FinishCycle ==
    /\ pc = "stage" /\ ~panicked
    /\ stage = "apply"
    /\ state' = IF runner = "Running" THEN new_state ELSE state           \* 740-742
    /\ state_start' = IF runner # "Running" THEN state_start
                      ELSE IF state' \in {"Wait", "WaitUntil"} THEN now ELSE NoInstant
    /\ state_end' = IF runner # "Running" THEN state_end
                    ELSE IF state' = "WaitUntil" THEN deadline ELSE NoInstant
    /\ LET closed == IsClosed(runner, state', FALSE)                      \* 636
       IN  /\ runner' = IF closed THEN "Destroyed" ELSE runner            \* 757
           /\ all_canvases' = IF closed THEN {} ELSE all_canvases         \* 746
           /\ listeners' = IF in_start THEN TRUE                          \* 283-469
                           ELSE IF closed THEN FALSE ELSE listeners       \* 747-754
           /\ scheduled' = IF runner # "Running" THEN NotAssigned(scheduled)
                           ELSE IF closed THEN <<>> ELSE Assigned(scheduled)
           /\ hist' = [CycleStart(hist) EXCEPT
                          !.cycleDone = TRUE,
                          !.teardowns = IF closed THEN Min(@ + 1, 2) ELSE @,
                          !.enteredInAtw = hist.setInAtw,
                          !.cancelled = @ \/ NotAssigned(scheduled) # <<>>,
                          !.enteredAt = now,
                          !.enteredCf = control_flow,
                          !.enteredEnd = deadline]
    /\ in_start' = FALSE
    /\ pc' = "idle"
    /\ stage' = "batch"
    /\ log' = <<>>
    /\ UNCHANGED <<control_flow, exit, events, id, redraw_pending, destroy_pending,
                   proxy_woken, nxt, batch, redraw_events, destroying, panicked,
                   envVars, now, deadline, start_cause>>
    /\ UNCHANGED otherVars

(***************************************************************************)
(* The device events of the web runner.                                    *)
(***************************************************************************)

\* Shared::device_events (799-813).  A canvas whose window handle was
\* dropped cannot be upgraded.
DeviceEventsAllowed ==
    CASE device_events = "Always" -> TRUE
      [] device_events = "WhenFocused" ->
            has_focus \in all_canvases /\ has_focus \notin dropped
      [] device_events = "Never" -> FALSE

\* Shared::listen_device_events (795-797).
ListenDeviceEvents(allowed) ==
    /\ Callable
    /\ Call
    /\ device_events' = allowed
    /\ UNCHANGED <<progVars, stackVars, monitor_initializing, microtask, dropped, nextSeq,
                   timeVars, log, hist, has_focus, ximVars, monitorVars, imeVars, coreVars, idVars>>

\* The canvas of window w gets the input focus: its has_focus cell is set.
Focus(w) ==
    /\ TopLevel
    /\ Call
    /\ w \in Live /\ w \in all_canvases
    /\ has_focus # w
    /\ has_focus' = w
    /\ UNCHANGED <<progVars, stackVars, monitor_initializing, microtask, dropped, nextSeq,
                   timeVars, log, hist, device_events, ximVars, monitorVars, imeVars, coreVars, idVars>>

\* The canvas that had the input focus loses it.
Blur ==
    /\ TopLevel
    /\ Call
    /\ has_focus # NoWindow
    /\ has_focus' = NoWindow
    /\ UNCHANGED <<progVars, stackVars, monitor_initializing, microtask, dropped, nextSeq,
                   timeVars, log, hist, device_events, ximVars, monitorVars, imeVars, coreVars, idVars>>

\* A pointermove, wheel, pointerdown, pointerup, keydown or keyup listener of
\* set_listener (310-442) runs: a raw device input has occurred.
OnDeviceInput ==
    /\ TopLevel
    /\ Call
    /\ listeners
    /\ IF ~DeviceEventsAllowed                         \* 314-316, 357-359, ...
       THEN /\ hist' = [hist EXCEPT !.raw = @ + 1]
            /\ stackIdle
            /\ UNCHANGED <<events, panicked, nextSeq>>
       ELSE /\ nextSeq' = nextSeq + 1
            /\ send_events(<<Ev("DeviceEvent", "-", NoWindow, nextSeq)>>,
                           [ClosedSend(hist) EXCEPT !.raw = @ + 1],
                           [CycleStart(hist) EXCEPT !.raw = @ + 1])
    /\ UNCHANGED <<runner, state, control_flow, exit, id, all_canvases, redraw_pending,
                   destroy_pending, listeners, proxy_woken, in_start,
                   monitor_initializing, microtask, dropped, schedVars,
                   deviceVars, ximVars, monitorVars, imeVars, coreVars, idVars>>

Next ==
    \/ Start
    \/ StartRejected
    \/ StartDelayed
    \/ \E kinds \in Batches : SendEvents(kinds)
    \/ \E w \in WindowIds : RequestRedraw(w)
    \/ \E w \in WindowIds : NotifyDestroyWindow(w)
    \/ CreateWindow
    \/ \E cf \in {"Poll", "Wait", "WaitUntil"}, t \in Instants : SetControlFlow(cf, t)
    \/ Exit
    \/ Tick
    \/ ProxyWakeUp
    \/ \E local \in BOOLEAN : SendProxyWakeUp(local)
    \/ RunMicrotask
    \/ PageShow
    \/ \E persisted \in BOOLEAN : PageHide(persisted)
    \/ Poll
    \/ ResumeTimeReached
    \/ HandleEvent
    \/ CallbackReturn
    \/ RunBatch
    \/ ProcessDestroyPendingWindows
    \/ RunRedraw
    \/ ApplyControlFlow
    \/ FinishCycle

Spec == Init /\ [][Next]_vars

\* The steps of a run_until_cleared invocation; the callbacks return.
Cycle ==
    \/ HandleEvent
    \/ CallbackReturn
    \/ RunBatch
    \/ ProcessDestroyPendingWindows
    \/ RunRedraw
    \/ ApplyControlFlow
    \/ FinishCycle

\* The runner of an application to which nothing is submitted: no event, no
\* redraw request, no proxy wake-up, no page transition.
NextQuiet ==
    \/ Start
    \/ StartDelayed
    \/ \E cf \in {"Poll", "Wait", "WaitUntil"}, t \in Instants : SetControlFlow(cf, t)
    \/ Exit
    \/ Tick
    \/ Poll
    \/ ResumeTimeReached
    \/ HandleEvent
    \/ CallbackReturn
    \/ RunBatch
    \/ ProcessDestroyPendingWindows
    \/ RunRedraw
    \/ ApplyControlFlow
    \/ FinishCycle

\* ... where an invocation that has begun goes on, and a scheduled poll wake
\* fires.
SpecQuiet == Init /\ [][NextQuiet]_vars /\ WF_vars(Cycle) /\ WF_vars(Poll)

\* The runner of an application that creates and drops windows and asks
\* for redraws, and to which no event is submitted.
NextWindows ==
    \/ Start
    \/ StartDelayed
    \/ CreateWindow
    \/ \E w \in WindowIds : RequestRedraw(w)
    \/ \E w \in WindowIds : NotifyDestroyWindow(w)
    \/ \E cf \in {"Poll", "Wait"} : SetControlFlow(cf, NoInstant)
    \/ Exit
    \/ Poll
    \/ HandleEvent
    \/ CallbackReturn
    \/ RunBatch
    \/ ProcessDestroyPendingWindows
    \/ RunRedraw
    \/ ApplyControlFlow
    \/ FinishCycle

\* ... where an invocation that has begun goes on, and a scheduled poll wake
\* fires.
SpecWindows == Init /\ [][NextWindows]_vars /\ WF_vars(Cycle) /\ WF_vars(Poll)

\* The web runner with its device event filter: the application starts,
\* creates windows and chooses which device events it listens to; the
\* canvases gain and lose the focus; raw device inputs occur.
NextDevice ==
    \/ Start
    \/ StartDelayed
    \/ CreateWindow
    \/ \E allowed \in {"Always", "WhenFocused", "Never"} : ListenDeviceEvents(allowed)
    \/ \E w \in WindowIds : Focus(w)
    \/ Blur
    \/ OnDeviceInput
    \/ HandleEvent
    \/ CallbackReturn
    \/ RunBatch
    \/ ProcessDestroyPendingWindows
    \/ RunRedraw
    \/ ApplyControlFlow
    \/ FinishCycle

SpecDevice == Init /\ [][NextDevice]_vars

\* The X11 input method under the callbacks of Xlib.
InitCallbacks ==
    InitWeb /\ InitMonitor /\ InitIme /\ InitCore /\ InitId /\ InitXimCallbacks

SpecXim == InitCallbacks /\ [][NextXim]_vars

\* The X11 monitor list under its callers and the X server.
SpecMonitor == Init /\ [][NextMonitor]_vars

\* The IME requests of one window.
SpecIme == Init /\ [][NextIme]_vars

\* The application constructs ImeEnableRequests.
SpecEnableRequest == Init /\ [][NextEnableRequest]_vars

\* The application constructs ImeSurroundingTexts.
InitTexts ==
    /\ InitWeb /\ InitXim /\ InitMonitor /\ InitIme /\ InitId
    /\ InitButton /\ InitForce /\ InitSurroundingText

SpecSurroundingText == InitTexts /\ [][NextSurroundingText]_vars

\* The window id counter under generate_id calls, from any point of the
\* life of the loop.
InitIds == InitWeb /\ InitXim /\ InitMonitor /\ InitIme /\ InitCore /\ InitCounter

SpecGenerateId == InitIds /\ [][NextId]_vars

\* The monitors are queried, whatever the screen holds.
InitScreens ==
    /\ InitWeb /\ InitXim /\ InitIme /\ InitCore /\ InitId
    /\ InitMonitorList /\ InitQueries

SpecQuery == InitScreens /\ [][NextQuery]_vars

\* The application converts ButtonSources.
InitButtons ==
    /\ InitWeb /\ InitXim /\ InitMonitor /\ InitIme /\ InitId
    /\ InitSurrounding /\ InitForce /\ InitButtonSource

SpecButton == InitButtons /\ [][NextButton]_vars

\* The application normalizes Forces.
InitNormalized ==
    /\ InitWeb /\ InitXim /\ InitMonitor /\ InitIme /\ InitId
    /\ InitSurrounding /\ InitButton /\ InitForces

SpecForce == InitNormalized /\ [][NextForce]_vars

TypeOK ==
    /\ runner \in {"Pending", "Initializing", "Running", "Destroyed"}
    /\ state \in {"Init", "Poll", "Wait", "WaitUntil", "Exit"}
    /\ pc \in {"idle", "handle", "callback", "stage"}
    /\ panicked \in BOOLEAN


(***************************************************************************)
(* The claims.                                                             *)
(***************************************************************************)

\* All callbacks of the invocation have been delivered: run_until_cleared is
\* at line 633.
CycleComplete == pc = "stage" /\ stage = "atw"

Count(e, s) == Cardinality({i \in 1 .. Len(s) : s[i] = e})

\* C1: the callbacks of one run_until_cleared invocation are one dispatch
\* cycle: new_events is its first callback and only its first, about_to_wait
\* is its last callback and only its last, so that every other callback lies
\* between the two.
C1_CycleShape ==
    /\ \A i \in 1 .. Len(log) : (log[i].type = "NewEvents") <=> (i = 1)
    /\ \A i \in 1 .. Len(log) : log[i].type = "AboutToWait" => i = Len(log)
    /\ CycleComplete => log # <<>> /\ Last(log) = AboutToWait

\* The phase of a callback in the order of C2.
Phase(e) ==
    CASE e.type \in {"WindowEvent", "DeviceEvent"} -> 1
      [] e.type = "Destroyed" -> 2
      [] e.type = "RedrawRequested" -> 3
      [] e.type = "AboutToWait" -> 4
      [] OTHER -> 0

\* C2: within one cycle the window and device events come first, then the
\* Destroyed events of the destroy queue, then the RedrawRequested events,
\* then AboutToWait: no callback of an earlier phase follows one of a later
\* phase.
C2_PhaseOrder ==
    \A i, j \in 1 .. Len(log) :
        i < j /\ Phase(log[i]) > 0 /\ Phase(log[j]) > 0 => Phase(log[i]) <= Phase(log[j])

\* C3: can_create_surfaces is delivered once, in the first cycle, as the
\* callback that follows new_events(Init), before every other event.
C3_CreateSurfacesFirst ==
    /\ hist.surfCount <= 1
    /\ \A i \in 1 .. Len(log) :
          log[i] = CreateSurfaces => i = 2 /\ log[1] = NewEvents("Init")
    /\ hist.cycleDone => hist.surfCount = 1

\* C4: the first callback of a run is new_events(StartCause::Init), it is
\* delivered once, and LoopState is not Init once the first cycle has ended.
C4_InitOnce ==
    /\ hist.firstCb \in {NoEvent, NewEvents("Init")}
    /\ hist.initCount <= 1
    /\ log # <<>> => hist.initCount = 1
    /\ hist.cycleDone => state # "Init"

\* A later cycle has begun, with another cause.
C4_Witness ==
    /\ hist.cycleDone
    /\ hist.initCount = 1
    /\ log # <<>> /\ log[1].type = "NewEvents" /\ log[1].cause # "Init"


DestroyedThenNoRedraw(w) ==
    \E i \in 1 .. Len(log) :
        /\ log[i] = Destroyed(w)
        /\ \A j \in (i + 1) .. Len(log) : log[j] # RedrawRequested(w)

\* C6 as claimed: a window for which notify_destroy_window was called in the
\* cycle, at any phase of it, while it had a redraw pending, has got its
\* Destroyed in that cycle and no RedrawRequested after it.
C6_DestroyBeforeRedraw ==
    CycleComplete => \A w \in hist.notified : DestroyedThenNoRedraw(w)

\* C6 amended: that holds for the notifications made before the destroy phase
\* of the cycle has ended; a notification made later in the cycle gets no
\* Destroyed in that cycle and waits in destroy_pending.
C6_DestroyBeforeRedrawInPhase ==
    CycleComplete =>
        /\ \A w \in hist.notifiedPre : DestroyedThenNoRedraw(w)
        /\ \A w \in hist.notified \ hist.notifiedPre :
              Destroyed(w) \notin Range(log) /\ w \in Range(destroy_pending)

\* A window with a pending redraw was notified destroyed during the cycle,
\* before the destroy phase ended, and has got its Destroyed.
C6_Witness ==
    /\ CycleComplete
    /\ \E w \in hist.notified \cap hist.notifiedPre : Destroyed(w) \in Range(log)

\* C7: the events submitted through send_event / send_events are delivered
\* in the order of their submission.
C7_Fifo ==
    \A i, j \in 1 .. Len(log) :
        i < j /\ log[i].seq > 0 /\ log[j].seq > 0 => log[i].seq < log[j].seq

\* C8: no window event other than Destroyed is delivered for a window whose
\* destruction was notified and whose Destroyed has not been delivered yet
\* (the window is still in destroy_pending).
C8_NoEventAfterNotify ==
    pc = "handle" /\ runner = "Running" /\ nxt.type \in {"WindowEvent", "RedrawRequested"}
        => nxt.window_id \notin Range(destroy_pending)

\* The runner is closed: LoopState Exit, or RunnerEnum::Destroyed.
Closed == runner = "Destroyed" \/ (runner = "Running" /\ state = "Exit")

\* C9: a step that submits an event to a closed runner does not fail, makes
\* no callback and leaves the pending queue as it is.
C9_ClosedSendDiscarded ==
    [][Closed /\ nextSeq' # nextSeq =>
          /\ ~panicked'
          /\ log' = log /\ pc' = pc
          /\ events' = events]_vars

\* An event has been submitted to a closed runner.
C9_Witness == hist.closedSend /\ Closed

\* C10 as claimed: a loop that has terminated has been torn down exactly
\* once.
C10_TeardownOnEveryPath ==
    /\ hist.teardowns <= 1
    /\ runner = "Destroyed" => hist.teardowns = 1

\* C10 amended: handle_loop_destroyed never runs twice; once exit has been
\* requested during a cycle it has run, exactly once, when that cycle's
\* run_until_cleared returns; a loop that is Destroyed without it was ended
\* by handle_unload, which does not tear down.
C10_TeardownOnceOnExit ==
    /\ hist.teardowns <= 1
    /\ pc = "idle" /\ hist.exitInCycle /\ ~hist.unloaded =>
          runner = "Destroyed" /\ hist.teardowns = 1
    /\ runner = "Destroyed" /\ hist.teardowns = 0 => hist.unloaded
    /\ hist.teardowns = 1 => runner = "Destroyed" /\ all_canvases = {}

\* The loop was ended by exit() and further calls arrived after it.
C10_Witness ==
    /\ runner = "Destroyed" /\ hist.teardowns = 1 /\ ~hist.unloaded
    /\ hist.closedSend


\* C12: once the application has called exit(), from a callback or between
\* two invocations, no new_events callback is delivered any more.
C12_NoNewEventsAfterExit ==
    pc = "handle" /\ runner = "Running" /\ nxt.type = "NewEvents" => ~hist.exitCalled

\* C13: when a cycle completes, the LoopState becomes Exit if the exit flag
\* is set, and otherwise what the ControlFlow last set says: Poll, Wait with
\* start = now, or WaitUntil with start = now and end = the deadline.
C13_NextState ==
    [][pc = "stage" /\ stage = "apply" /\ pc' = "idle" /\ runner = "Running" =>
          IF exit
          THEN state' = "Exit"
          ELSE /\ state' = control_flow
               /\ control_flow \in {"Wait", "WaitUntil"} => state_start' = now
               /\ control_flow = "WaitUntil" => state_end' = deadline]_vars

\* A WaitUntil that was set from about_to_wait has been installed.
C13_Witness ==
    /\ pc = "idle" /\ runner = "Running"
    /\ hist.enteredInAtw /\ hist.enteredCf = "WaitUntil"
    /\ state = "WaitUntil" /\ state_end = hist.enteredEnd /\ state_start = hist.enteredAt

InApply == pc = "stage" /\ stage = "apply"

PastDeadline ==
    /\ runner = "Running" /\ state = "WaitUntil"
    /\ hist.enteredCf = "WaitUntil" /\ hist.enteredEnd <= hist.enteredAt

\* C15: after WaitUntil(t) with t not later than the completion of the
\* cycle, the wake is scheduled with zero delay, and the next cycle begins
\* with ResumeTimeReached or WaitCancelled carrying requested_resume = t and
\* start >= t.
C15_PastDeadline ==
    /\ pc = "idle" /\ PastDeadline =>
          /\ Len(scheduled) = 1
          /\ scheduled[1].kind = "Timeout" /\ scheduled[1].due = hist.enteredAt
    /\ log # <<>> /\ PastDeadline =>
          /\ log[1].type = "NewEvents"
          /\ log[1].cause \in {"ResumeTimeReached", "WaitCancelled"}
          /\ start_cause.requested_resume = hist.enteredEnd
          /\ start_cause.start >= hist.enteredEnd

\* The timer of a deadline that was already over when the cycle completed
\* has fired.
C15_Witness ==
    /\ log # <<>> /\ PastDeadline
    /\ log[1].cause = "ResumeTimeReached"
    /\ hist.enteredEnd < hist.enteredAt

\* C16: new_events(ResumeTimeReached) is never delivered before the
\* requested resume time, the timer firing no earlier than its delay.
C16_NotBeforeDeadline ==
    log # <<>> /\ log[1].cause = "ResumeTimeReached" =>
        /\ start_cause.requested_resume = hist.enteredEnd
        /\ hist.firedAt >= start_cause.requested_resume
        /\ now >= start_cause.requested_resume

\* The timer of a deadline that lay in the future has fired.
C16_Witness ==
    /\ log # <<>> /\ log[1].cause = "ResumeTimeReached"
    /\ start_cause.requested_resume > start_cause.start

\* C17 as claimed: ResumeTimeReached carries the time the wake fired as
\* start and the deadline as requested_resume.
C17_StartIsFireTime ==
    log # <<>> /\ log[1].cause = "ResumeTimeReached" =>
        /\ start_cause.start = hist.firedAt
        /\ start_cause.requested_resume = hist.enteredEnd

\* C17 amended: ResumeTimeReached carries the moment the wait was entered
\* as start, which is not later than the time the wake fired, and the
\* deadline as requested_resume.
C17_StartIsEntryTime ==
    log # <<>> /\ log[1].cause = "ResumeTimeReached" =>
        /\ start_cause.start = hist.enteredAt
        /\ start_cause.start <= hist.firedAt
        /\ start_cause.requested_resume = hist.enteredEnd

\* A wake has fired later than the wait was entered.
C17_Witness ==
    /\ log # <<>> /\ log[1].cause = "ResumeTimeReached"
    /\ hist.firedAt > hist.enteredAt

\* C18: a cycle that an event or a redraw request starts begins with
\* WaitCancelled{start: the moment the wait was entered, requested_resume:
\* None} in Wait, with WaitCancelled{start, Some(deadline)} in WaitUntil and
\* with Poll in Poll.
C18_WaitCancelled ==
    log # <<>> /\ hist.origin = "send" =>
        CASE state = "Wait" ->
                /\ log[1] = NewEvents("WaitCancelled")
                /\ start_cause = [start |-> hist.enteredAt, requested_resume |-> NoInstant]
          [] state = "WaitUntil" ->
                /\ log[1] = NewEvents("WaitCancelled")
                /\ start_cause = [start |-> hist.enteredAt,
                                  requested_resume |-> hist.enteredEnd]
          [] state = "Poll" ->
                /\ log[1] = NewEvents("Poll")
                /\ start_cause = NoFields
          [] OTHER -> FALSE

\* An event has cancelled a WaitUntil some time after it was entered.
C18_Witness ==
    /\ log # <<>> /\ hist.origin = "send"
    /\ state = "WaitUntil" /\ hist.enteredAt < now
    /\ start_cause.requested_resume = hist.enteredEnd


\* The step submits events through send_events / send_proxy_wake_up and all
\* it does is to append them, in their order, to the pending queue.
Queues ==
    /\ nextSeq' # nextSeq /\ proxy_woken' = proxy_woken
    /\ Len(events') = Len(events) + (nextSeq' - nextSeq)
    /\ \A i \in 1 .. Len(events) : events'[i] = events[i]
    /\ \A i \in (Len(events) + 1) .. Len(events') :
          events'[i].seq = nextSeq + (i - Len(events) - 1)
    /\ log' = log /\ pc' = pc /\ ~panicked'

Submits == nextSeq' # nextSeq /\ proxy_woken' = proxy_woken

NoCallbackYet == log = <<>> /\ pc = "idle" /\ hist.firstCb = NoEvent

\* C19 as claimed: while the runner is Pending no callback is invoked and
\* the pending queue stays empty.
C19_PendingBuffersNothing ==
    runner = "Pending" => NoCallbackYet /\ events = <<>>

\* C19 amended: while the runner is Pending no callback is invoked, and
\* the events submitted are appended to the pending queue.
C19_PendingQueues ==
    /\ [](runner = "Pending" => NoCallbackYet)
    /\ [][runner = "Pending" /\ Submits => Queues]_vars

\* An event is queued in a runner that is Pending.
C19_Witness == runner = "Pending" /\ events # <<>>

\* The callbacks of the invocation that deliver an event that was queued
\* when start_delayed started the runner.
DeliveredOfQueued == SelectSeq(log, LAMBDA e : e \in Range(hist.queued))

IsPrefix(s, t) == Len(s) <= Len(t) /\ \A i \in 1 .. Len(s) : s[i] = t[i]

\* C20 as claimed: what was queued while Initializing is delivered, once
\* each and in submission order, in the first cycle.
C20_QueuedAllDelivered ==
    /\ runner = "Initializing" => NoCallbackYet
    /\ in_start /\ CycleComplete => DeliveredOfQueued = hist.queued

\* C20 amended: while the runner is Initializing no callback is invoked and
\* submitted events are appended to the pending queue; the first cycle
\* delivers them once each and in submission order, all of them unless exit
\* is requested in that cycle, and then those that precede the request.
C20_QueuedDeliveredUnlessExit ==
    /\ [](runner = "Initializing" => NoCallbackYet)
    /\ [][runner = "Initializing" /\ Submits => Queues]_vars
    /\ [](in_start => IsPrefix(DeliveredOfQueued, hist.queued))
    /\ [](in_start /\ CycleComplete /\ ~exit => DeliveredOfQueued = hist.queued)

\* Two events queued while Initializing have been delivered by the first
\* cycle.
C20_Witness ==
    /\ in_start /\ CycleComplete /\ ~exit
    /\ Len(hist.queued) = 2 /\ DeliveredOfQueued = hist.queued


\* The application has asked for Poll and not for exit.
PollMode == runner = "Running" /\ control_flow = "Poll" /\ ~exit

\* The new_events(StartCause::Poll) callback of an invocation of poll() runs.
PollBegun == pc = "callback" /\ hist.origin = "poll" /\ log = <<NewEvents("Poll")>>

\* The about_to_wait callback of an invocation of poll() runs.
PollEnded ==
    /\ pc = "callback" /\ hist.origin = "poll"
    /\ log # <<>> /\ log[1] = NewEvents("Poll") /\ Last(log) = AboutToWait

\* C11: with nothing submitted, as long as the application asks for Poll
\* and not for exit, new_events(Poll) is delivered again and again, and so
\* is the about_to_wait of those cycles, which deliver nothing but these
\* two callbacks.
C11_PollRepeats ==
    /\ []<>(~PollMode \/ PollBegun)
    /\ []<>(~PollMode \/ PollEnded)
    /\ [](hist.origin = "poll" =>
             \A i \in 1 .. Len(log) :
                 log[i] = IF i = 1 THEN NewEvents("Poll") ELSE AboutToWait)
    /\ [](hist.origin = "poll" /\ CycleComplete => log = <<NewEvents("Poll"), AboutToWait>>)

\* The second poll() in a row has delivered its about_to_wait.
C11_Witness == PollMode /\ PollEnded /\ hist.polls = 2 /\ state = "Poll"


(***************************************************************************)
(* C21.  The lifecycle of the runner.                                      *)
(***************************************************************************)

\* The order of the lifecycle.
Rank(r) ==
    CASE r = "Pending" -> 0
      [] r = "Initializing" -> 1
      [] r = "Running" -> 2
      [] r = "Destroyed" -> 3

\* C21: the runner only moves forward along Pending -> (Initializing ->)
\* Running -> Destroyed; no step leaves Destroyed, no step goes back from
\* Running; a start() on a runner that is not Pending is rejected (it panics
\* and changes neither the runner nor what is on the stack); a handler
\* callback executes only while the runner is Running.
C21_Lifecycle ==
    [][/\ Rank(runner') >= Rank(runner)
       /\ runner = "Destroyed" => runner' = "Destroyed"
       /\ runner = "Running" => runner' \in {"Running", "Destroyed"}
       /\ runner = "Initializing" => runner' \in {"Initializing", "Running"}
       /\ (hist'.starts # hist.starts /\ runner # "Pending")
             => panicked' /\ runner' = runner /\ pc' = pc /\ log' = log
       /\ pc' = "callback" => runner' = "Running"]_vars

\* C21 witness: a destroyed runner on which start() was called again and
\* rejected, after callbacks were delivered.
C21_Witness ==
    /\ runner = "Destroyed" /\ panicked /\ hist.starts = 2
    /\ hist.firstCb # NoEvent


(***************************************************************************)
(* C22.  The queue is drained within the invocation.                       *)
(***************************************************************************)

\* run_until_cleared has handled AboutToWait and everything before it.
CycleEnd == pc = "stage" /\ stage \in {"atw", "apply"}

\* C22: at the end of every run_until_cleared invocation in which exit was
\* not requested the pending queue is empty, and every event that was queued
\* while a callback of the invocation was executing has been delivered by
\* the invocation.
C22_QueueDrained ==
    (CycleEnd /\ ~exit) =>
        /\ events = <<>>
        /\ \A i \in 1 .. Len(hist.reentrant) : Count(hist.reentrant[i], log) = 1

\* C22 witness: an invocation ends without exit after events were queued
\* from its callbacks.
C22_Witness ==
    /\ CycleEnd /\ stage = "apply" /\ ~exit
    /\ Len(hist.reentrant) >= 2
    /\ events = <<>>

(***************************************************************************)
(* C23.  Callbacks never nest.                                             *)
(***************************************************************************)

\* request_redraw(w) was called from a callback for a window not yet
\* requested in the invocation.
RequestsRedraw == hist'.reqInCycle # hist.reqInCycle /\ pc = "callback"

\* C23: an event submitted while a handler callback is executing (send_event,
\* send_events, send_proxy_wake_up) is appended to the pending queue, a redraw
\* requested from a callback is added to the pending redraws; neither
\* invokes a callback, ends the executing one or panics.  An event leaves
\* the pending queue only as the argument of the next handle_event call.
C23_NoNesting ==
    /\ [][(pc = "callback" /\ Submits) => Queues]_vars
    /\ [][RequestsRedraw =>
            /\ redraw_pending' = redraw_pending \cup (hist'.reqInCycle \ hist.reqInCycle)
            /\ events' = events /\ log' = log /\ pc' = pc /\ ~panicked']_vars
    /\ [][events' # events =>
            \/ IsPrefix(events, events')
            \/ /\ pc' = "handle" /\ nxt' # NoEvent
               /\ <<nxt'>> \o events' \in {events, Append(events, UserWakeUp)}]_vars

\* C23 witness: a callback is executing and two events submitted from
\* callbacks of the invocation are in the pending queue.
C23_Witness ==
    /\ pc = "callback" /\ ~panicked
    /\ Len(hist.reentrant) >= 2
    /\ \A i \in 1 .. Len(hist.reentrant) : Count(hist.reentrant[i], events) = 1


(***************************************************************************)
(* C24.  Device events and the input focus.                                *)
(***************************************************************************)

\* C24 as claimed: a raw device input that occurs while the loop is running
\* (the runner is Running and its state is not Exit) is handed to
\* send_events as a DeviceEvent, whether or not a canvas has the focus.
C24_DeviceEventRegardlessOfFocus ==
    [][(hist'.raw # hist.raw /\ runner = "Running" /\ state # "Exit") =>
          /\ nextSeq' = nextSeq + 1
          /\ \/ Len(events') = Len(events) + 1
             \/ pc' = "handle"]_vars

(***************************************************************************)
(* C25, C26, C27.  Replacing the X11 input method.                         *)
(***************************************************************************)

\* C25: when replace_im returns an error, ImeInner (im, contexts,
\* is_destroyed, is_fallback) is as it was given to replace_im and stays so
\* when the callback ends, and the input methods open are those that were
\* open before (the new one was closed again); when it returns Ok, the
\* input method is one that was not open before and every context of the
\* table was created under it.
C25_AllOrNothing ==
    /\ (ime_last.ran /\ ime_last.result # "Ok") =>
          /\ ime_last.after = ime_last.before
          /\ inner = ime_last.before
          /\ ime_last.open_after = ime_last.open_before
    /\ (ime_last.ran /\ ime_last.result = "Ok") =>
          /\ ime_last.after.im \notin ime_last.open_before
          /\ ime_last.after.im \in ime_last.open_after
          /\ \A w \in DOMAIN ime_last.after.contexts :
                /\ ime_last.after.contexts[w].some
                /\ ime_last.after.contexts[w].im = ime_last.after.im
          /\ inner.im = ime_last.after.im
          /\ inner.contexts = ime_last.after.contexts

\* C25 witness: replace_im failed at the context of one of two windows,
\* after it had opened the new input method, and the callback returned.
C25_Witness ==
    /\ ime_last.ran /\ ime_last.result = "ContextCreationFailed" /\ ~ime_last.aborted
    /\ DOMAIN ime_last.before.contexts = ImeWindows
    /\ xim.next > 2

\* C26: after a successful replace_im the table has the windows it had;
\* every window has a context, created with the is_allowed flag and the
\* area of its old context, with false and no area when it had none; and
\* is_destroyed is false.
C26_ContextsPreserved ==
    (ime_last.ran /\ ime_last.result = "Ok") =>
        /\ DOMAIN ime_last.after.contexts = DOMAIN ime_last.before.contexts
        /\ \A w \in DOMAIN ime_last.before.contexts :
              LET old == ime_last.before.contexts[w]
                  new == ime_last.after.contexts[w]
              IN  /\ new.some
                  /\ new.is_allowed = (old.some /\ old.is_allowed)
                  /\ new.given = old.some
                  /\ old.some => new.ic_area = old.ic_area
        /\ DOMAIN inner.contexts = DOMAIN ime_last.before.contexts
        /\ ~ime_last.after.is_destroyed
        /\ ~inner.is_destroyed

\* C26 witness: a successful replace_im of a table with a window that had
\* no context and a window whose context was allowed and had area 1.
C26_Witness ==
    /\ ime_last.ran /\ ime_last.result = "Ok"
    /\ \E v, w \in DOMAIN ime_last.before.contexts :
          /\ ~ime_last.before.contexts[v].some
          /\ ime_last.before.contexts[w].some
          /\ ime_last.before.contexts[w].is_allowed
          /\ ime_last.before.contexts[w].ic_area = 1

\* C27 as claimed: when xim_destroy_callback returns normally, is_destroyed
\* is false and the input method of ImeInner is open.
C27_ReplacedOrAborted ==
    (ime_last.op = "destroy" /\ ~ime_last.aborted) =>
        /\ ~inner.is_destroyed
        /\ inner.im \in xim.open

(***************************************************************************)
(* C28.  The cached monitor list.                                          *)
(***************************************************************************)

\* C28: available_monitors queries the X server exactly when the cache is
\* empty; with a cached list it returns that list and keeps it; once a call
\* has succeeded, every call until the next invalidation returns the list
\* that call returned, without a query; a successful query returns what the
\* server reports and caches it; a failed query returns the error and
\* leaves the cache empty; invalidate_cached_monitor_list empties the cache
\* and returns what was cached.
C28_MonitorCache ==
    /\ mon_last.op = "available" =>
          /\ mon_last.queried <=> ~mon_last.before.some
          /\ mon_last.before.some =>
                mon_last.ok /\ mon_last.ret = mon_last.before
                    /\ mon_last.after = mon_last.before
          /\ mon_last.served.some =>
                ~mon_last.queried /\ mon_last.ok /\ mon_last.ret = mon_last.served
          /\ (mon_last.queried /\ mon_last.ok) =>
                mon_last.ret = SomeList(mon_last.server) /\ mon_last.after = mon_last.ret
          /\ ~mon_last.ok =>
                mon_last.queried /\ ~mon_last.ret.some /\ ~mon_last.after.some
    /\ mon_last.op = "invalidate" =>
          ~mon_last.queried /\ ~mon_last.after.some /\ mon_last.ret = mon_last.before
    /\ mon_last.op # "none" => monitor_handles = mon_last.after

\* C28 witness: a call answered from the cache after the monitors changed.
C28_Witness ==
    /\ mon_last.op = "available" /\ mon_last.served.some /\ ~mon_last.queried
    /\ mon_last.server # mon_last.ret.list
    /\ Len(mon_last.ret.list) = 2

(***************************************************************************)
(* C29, C30.  IME requests.                                                *)
(***************************************************************************)

\* C29: an Update issued while the session is not enabled is rejected with
\* NotEnabled and leaves the session Disabled; an Enable issued while it is
\* not enabled is accepted and enables it, and an Update issued while it is
\* enabled is accepted.
C29_UpdateNeedsEnable ==
    /\ (ime_req.kind = "Update" /\ ~ime_req.was_enabled) =>
          ime_req.result = "NotEnabled" /\ ime_session = Disabled
    /\ (ime_req.kind = "Enable" /\ ~ime_req.was_enabled) =>
          ime_req.result = "Ok" /\ ime_session.enabled
    /\ (ime_req.kind = "Update" /\ ime_req.was_enabled) =>
          ime_req.result = "Ok" /\ ime_session.enabled

\* C29 witness: an Update was rejected, Enable was issued, and the next
\* Update was accepted and changed the cursor area.
C29_Witness ==
    /\ ime_req.recovered /\ ime_req.kind = "Update" /\ ime_req.result = "Ok"
    /\ ime_session.data.cursor_area = "b" /\ ime_req.data.cursor_area = "b"

\* For one of the three fields exactly one of (capability requested, data
\* supplied) holds.
Disagree(capabilities, request_data) ==
    \E f \in {"cursor_area", "purpose", "surrounding_text"} :
        (f \in capabilities) # (request_data[f] # "None")

\* C30: ImeEnableRequest::new returns None when the capabilities and the
\* data disagree on one of the three fields, and Some holding exactly the
\* capabilities and the data when they agree on all.
C30_EnableRequestNew ==
    enable_request.called =>
        IF Disagree(enable_request.capabilities, enable_request.request_data)
        THEN ~enable_request.result.some
        ELSE /\ enable_request.result.some
             /\ enable_request.result.capabilities = enable_request.capabilities
             /\ enable_request.result.request_data = enable_request.request_data

\* C30 witness: a request with the three capabilities and the three fields.
C30_Witness ==
    /\ enable_request.called /\ enable_request.result.some
    /\ enable_request.result.capabilities = {"purpose", "cursor_area", "surrounding_text"}
    /\ enable_request.result.request_data.surrounding_text = "a"


\* The bytes of a text before its j-th run.
RECURSIVE Offset(_, _)
Offset(t, j) ==
    IF j = 1 THEN 0 ELSE Offset(t, j - 1) + t[j - 1].width * t[j - 1].count

\* p is a code-point boundary of the text: 0, or the offset at which a
\* code point of one of its runs ends.
OnBoundary(t, p) ==
    \/ p = 0
    \/ \E j \in 1 .. Len(t) :
          LET d == p - Offset(t, j)
          IN  d >= 0 /\ d <= t[j].width * t[j].count /\ d % t[j].width = 0

Less(a, b) == a.hi < b.hi \/ (a.hi = b.hi /\ a.lo < b.lo)

\* C32: successive generate_id calls return strictly increasing values,
\* starting at 0 on a new loop, so that no two calls return the same id;
\* a call that finds the counter at the largest usize panics, returns
\* nothing and does not wrap the counter around.
C32_GenerateId ==
    /\ [](/\ \A i, j \in 1 .. Len(gen.returned) :
                i < j => Less(gen.returned[i], gen.returned[j])
          /\ gen.returned # <<>> =>
                /\ gen.returned[1] = gen.start
                /\ Less(gen.returned[Len(gen.returned)], gen.cell)
          /\ (gen.start = Fresh.cell /\ gen.returned # <<>>) =>
                gen.returned[1] = Usize(0, 0))
    /\ [][IF gen.cell = UsizeMax
          THEN gen'.panicked /\ gen'.returned = gen.returned /\ gen'.cell = gen.cell
          ELSE /\ ~gen'.panicked
               /\ gen'.returned = Append(gen.returned, gen.cell)
               /\ Less(gen.cell, gen'.cell)]_gen

\* C32 witness: a call has found the counter at the largest usize and
\* panicked, after calls that returned ids.
C32_Witness ==
    /\ gen.panicked
    /\ Len(gen.returned) >= 2

\* C33: mouse_button maps Unknown(n) to Left, Middle, Right, Back, Forward
\* for n = 0, 1, 2, 3, 4 and to Other(n) for every other n; it maps Mouse(b)
\* to b and every Touch source to Left.
C33_MouseButton ==
    button.called =>
        LET s == button.self
            r == button.result
        IN  /\ s.kind = "Unknown" =>
                  /\ s.n \in 0 .. 4 =>
                        r.name = <<"Left", "Middle", "Right", "Back", "Forward">>[s.n + 1]
                  /\ s.n \notin 0 .. 4 => (r.name = "Other" /\ r.n = s.n)
            /\ s.kind = "Mouse" => r = s.button
            /\ s.kind = "Touch" => r.name = "Left"

\* C33 witness: Unknown(3) has been converted to Back.
C33_Witness ==
    /\ button.called
    /\ button.self = Unknown(3)
    /\ button.result = Button("Back")

Delivery == pc = "handle" /\ runner = "Running" /\ pc' = "callback"

\* C35: once exit() has been requested from a callback of a cycle, no
\* event submitted after the request (through send_event, send_events or a
\* proxy wake-up) is delivered to the handler, and no event that was
\* waiting in the pending queue at the request is.
C35_NoEnqueueAfterExit ==
    [][(Delivery /\ hist.exitInCycle) =>
          IF nxt.seq = 0
          THEN nxt.type # "UserWakeUp"
          ELSE nxt.seq < hist.exitSeq /\ nxt.seq \notin hist.exitQueue]_vars

\* C35 witness: the cycle in which exit() was requested has ended and the
\* loop is destroyed; the pending queue still holds an event that was
\* waiting at the request and one submitted after it.
C35_Witness ==
    /\ hist.exitInCycle
    /\ runner = "Destroyed"
    /\ pc = "idle"
    /\ \E e \in Range(events) : e.seq >= hist.exitSeq
    /\ \E e \in Range(events) : e.seq \in hist.exitQueue

\* The callbacks delivered since exit() was requested from a callback of
\* the current invocation.
SinceExit == {log[i] : i \in (hist.exitAt.log + 1) .. Len(log)}

\* C36: when exit() is requested from a callback of a cycle, the rest of
\* the cycle still runs: the rest of the batch, Destroyed for the windows
\* pending destruction, RedrawRequested for the redraws pending (unless the
\* window is destroyed in the cycle) and about_to_wait are delivered; when
\* the invocation returns LoopState is Exit and the runner is Destroyed.
C36_ExitFinishesCycle ==
    /\ [](hist.exitInCycle /\ CycleComplete =>
            LET at == hist.exitAt
            IN  /\ Range(at.batch) \subseteq SinceExit
                /\ at.stage \in {"batch", "destroy"} =>
                      \A w \in at.destroy : Destroyed(w) \in SinceExit
                /\ at.stage \in {"batch", "destroy", "redraw"} =>
                      \A w \in at.redraw :
                          \/ RedrawRequested(w) \in SinceExit
                          \/ Destroyed(w) \in Range(log)
                /\ at.stage # "atw" => AboutToWait \in SinceExit
                /\ AboutToWait \in Range(log))
    /\ [][(exit /\ pc = "stage" /\ stage = "apply" /\ pc' = "idle" /\ runner = "Running") =>
             (state' = "Exit" /\ runner' = "Destroyed")]_vars
    /\ [](hist.exitInCycle /\ pc = "idle" => runner = "Destroyed" /\ state = "Exit")

\* C36 witness: exit() was requested during a callback of the batch phase
\* while a submitted event was left in the batch, and the cycle has
\* delivered that event and about_to_wait.
C36_Witness ==
    /\ hist.exitInCycle
    /\ CycleComplete
    /\ hist.exitAt.stage = "batch"
    /\ \E e \in Range(hist.exitAt.batch) : e.seq > 0 /\ e \in SinceExit
    /\ AboutToWait \in SinceExit
    /\ runner = "Running"

\* C37: Destroyed(id) is the last window event delivered for id: when it
\* is delivered id is no longer in the canvas table, and once it has been
\* delivered no window event for id, RedrawRequested included, is delivered.
C37_DestroyedIsLast ==
    [][Delivery =>
          /\ nxt.type = "Destroyed" => nxt.window_id \notin all_canvases
          /\ nxt.window_id # NoWindow => nxt.window_id \notin hist.destroyed]_vars

\* C37 witness: Destroyed has been delivered for a window, and a later
\* invocation has gone through its phases and delivered about_to_wait.
C37_Witness ==
    \E w \in hist.destroyed :
        /\ Destroyed(w) \notin Range(log)
        /\ AboutToWait \in Range(log)
        /\ w \notin all_canvases


C39_RedrawDelivered ==
    \A w \in WindowIds :
        (w \in redraw_pending /\ runner = "Running")
            ~> \/ pc = "callback" /\ Last(log) = RedrawRequested(w)
               \/ w \in dropped
               \/ runner = "Destroyed"

(***************************************************************************)
(* C40.  The primary monitor.                                              *)
(***************************************************************************)

\* C40: a non-empty list returned by query_monitor_list holds a monitor
\* marked primary, primary_monitor returns a member of a non-empty list, and
\* it returns the dummy monitor (id 0) only for an empty list, whether or not
\* the CRTC driving the primary output yields a MonitorHandle.
C40_PrimaryInList ==
    query.called =>
        /\ query.monitors # <<>> =>
              /\ \E i \in 1 .. Len(query.monitors) : query.monitors[i].primary
              /\ query.primary_monitor \in Range(query.monitors)
        /\ query.primary_monitor.id = 0 => query.monitors = <<>>

=============================================================================
